---------------------------- MODULE Spec2Model ----------------------------
(***************************************************************************)
(* A model of the CombatSystem class (CombatSystem.ts): the frame-stepped  *)
(* combat engine of the game, its attack catalog and its seeded generator. *)
(*                                                                         *)
(* One engine instance is the record `combat`:                             *)
(*   state              the CombatState aggregate (this.state)             *)
(*   inputLog           this.inputLog                                      *)
(*   rng                the `state` captured by the createSeededRandom     *)
(*                      closure (this.rng)                                 *)
(*   forcedAttackQueue  this.forcedAttackQueue                             *)
(*   runSeed            this._runSeed                                      *)
(*   ret                the value returned by the last call                *)
(*                      ("true"/"false" for attemptParry, else "void")     *)
(* `twin` is a second instance, used where two instances are compared.     *)
(* `snapshots` holds the objects handed out by getState, in call order.    *)
(*                                                                         *)
(* Numbers.  bossStagger is a double in the code.  Every amount added to   *)
(* or taken from it is a multiple of the per-tick decay                    *)
(* STAGGER_DECAY_PER_SECOND / TICKS_PER_SECOND = 1/120, so the model keeps *)
(* bossStagger as an exact count of such units (StaggerUnit per point).    *)
(* accuracy is a double in [0,1]; the model keeps it in tenths.            *)
(***************************************************************************)
EXTENDS Integers, Sequences, FiniteSets, TLC

VARIABLES combat, twin, snapshots

vars == <<combat, twin, snapshots>>

---------------------------------------------------------------------------
(* GameMode *)
STANDARD == 0
PRACTICE == 1

(* COMBAT_CONFIG *)
TICKS_PER_SECOND == 60
IMPACT_DELAY_FRAMES == 25
BLOCK_STAGGER == 5
PARRY_STAGGER == 25
STAGGER_MAX == 100
\* STAGGER_DECAY_PER_SECOND is 0.5: one point every DECAY_SECONDS_PER_POINT s.
DECAY_SECONDS_PER_POINT == 2
VULNERABILITY_DURATION_FRAMES == 180
SAFE_ATTACK_DAMAGE == 1
CRITICAL_DAMAGE == 3
ZONE_LEFT == 0
ZONE_CENTER == 1
ZONE_RIGHT == 2

\* Units of bossStagger per point: one unit is the decay of one tick.
StaggerUnit == TICKS_PER_SECOND * DECAY_SECONDS_PER_POINT

\* accuracy is kept in tenths: 0.9 is 9, the default 1.0 is 10.
ACCURACY_PERFECT_ABOVE == 9

\* const earlyWindow = 45 in attemptParry
earlyWindow == 45
\* the strike of playerAttack: damage at offset 10, over at offset 20
STRIKE_DAMAGE_OFFSET == 10
STRIKE_END_OFFSET == 20

Max(a, b) == IF a >= b THEN a ELSE b

---------------------------------------------------------------------------
(* The attack catalog *)

Attack(id, zone, windup, active, recovery, damage, isBlocking) ==
    [id |-> id, zone |-> zone, windupFrames |-> windup, activeFrames |-> active,
     recoveryFrames |-> recovery, damage |-> damage, isBlocking |-> isBlocking]

RUST_WARDEN_ATTACKS ==
    << Attack("bash_left", ZONE_LEFT, 120, 40, 30, 1, TRUE),
       Attack("bash_center", ZONE_CENTER, 100, 40, 30, 1, TRUE),
       Attack("bash_right", ZONE_RIGHT, 120, 40, 30, 1, TRUE),
       Attack("flail_sweep", ZONE_CENTER, 90, 45, 60, 1, FALSE),
       Attack("desperation_slam", ZONE_CENTER, 90, 30, 120, 1, FALSE) >>

\* The two falsy values bossCurrentAttack can hold: null, and the undefined
\* read from an array index out of range.
Null == Attack("null", -1, 0, 0, 0, 0, FALSE)
Undefined == Attack("undefined", -1, 0, 0, 0, 0, FALSE)

Truthy(attack) == attack.id \notin {"null", "undefined"}

AttackIds == {RUST_WARDEN_ATTACKS[i].id : i \in 1..Len(RUST_WARDEN_ATTACKS)}

\* RUST_WARDEN_ATTACKS.find(a => a.id === id): the first match, or undefined
FindAttack(id) ==
    IF id \in AttackIds
    THEN RUST_WARDEN_ATTACKS[CHOOSE i \in 1..Len(RUST_WARDEN_ATTACKS) :
                                 RUST_WARDEN_ATTACKS[i].id = id]
    ELSE Undefined

\* RUST_WARDEN_ATTACKS.filter(pred), in catalog order
RECURSIVE FilterFrom(_, _)
FilterFrom(i, ids) ==
    IF i > Len(RUST_WARDEN_ATTACKS) THEN << >>
    ELSE IF RUST_WARDEN_ATTACKS[i].id \in ids
         THEN <<RUST_WARDEN_ATTACKS[i]>> \o FilterFrom(i + 1, ids)
         ELSE FilterFrom(i + 1, ids)

---------------------------------------------------------------------------
(* The seeded generator.                                                   *)
(*   state = (state * 1103515245 + 12345) & 0x7fffffff                     *)
(* is computed in IEEE doubles: the product can exceed 2^53, and is then   *)
(* rounded to 53 significant bits (ties to even) before the addition,      *)
(* whose result is rounded again; & takes the low 31 bits of the result.   *)
(* Numbers beyond 31 bits are kept as four base-2^16 digits, low first.    *)

LCG_MULTIPLIER_HIGH == 16838   \* 1103515245 = 16838 * 2^16 + 20077
LCG_MULTIPLIER_LOW == 20077
LCG_INCREMENT == 12345
RNG_MODULUS == 2147483647      \* 0x7fffffff
DOUBLE_MANTISSA_BITS == 53
B16 == 65536

BitLen16(x) == CHOOSE n \in 0..17 : x < 2^n /\ (n = 0 \/ x >= 2^(n - 1))

BigBitLen(d) ==
    IF d[4] > 0 THEN 48 + BitLen16(d[4])
    ELSE IF d[3] > 0 THEN 32 + BitLen16(d[3])
    ELSE IF d[2] > 0 THEN 16 + BitLen16(d[2])
    ELSE BitLen16(d[1])

\* d + n for a small n >= 0
BigAdd(d, n) ==
    LET t1 == d[1] + n
        t2 == d[2] + (t1 \div B16)
        t3 == d[3] + (t2 \div B16)
        t4 == d[4] + (t3 \div B16)
    IN << t1 % B16, t2 % B16, t3 % B16, t4 >>

\* s * 1103515245 for 0 <= s < 2^31
BigMul(s) ==
    LET sl == s % B16
        sh == s \div B16
        t0 == sl * LCG_MULTIPLIER_LOW
        t1 == sh * LCG_MULTIPLIER_LOW + sl * LCG_MULTIPLIER_HIGH + (t0 \div B16)
        t2 == sh * LCG_MULTIPLIER_HIGH + (t1 \div B16)
    IN << t0 % B16, t1 % B16, t2 % B16, t2 \div B16 >>

\* mutant of RoundToDouble: the arithmetic is exact
RoundToDouble_exact(d) == d

\* the nearest double, ties to even
RoundToDouble(d) ==
    LET len == BigBitLen(d) IN
    IF len <= DOUBLE_MANTISSA_BITS THEN d
    ELSE LET k == len - DOUBLE_MANTISSA_BITS
             r == d[1] % (2^k)
             half == 2^(k - 1)
             odd == (d[1] \div (2^k)) % 2 = 1
             down == [d EXCEPT ![1] = d[1] - r]
         IN IF r > half \/ (r = half /\ odd) THEN BigAdd(down, 2^k) ELSE down

\* the generator's next state
RngNext(s) ==
    LET product == RoundToDouble(BigMul(s))
        sum == RoundToDouble(BigAdd(product, LCG_INCREMENT))
    IN (sum[2] % 32768) * B16 + sum[1]

\* rng() < 0.015 for the value state / 0x7fffffff: 0.015 * 0x7fffffff = 32212254.7
ATTACK_CHANCE_BELOW == 32212255
RollsAttack(s) == s < ATTACK_CHANCE_BELOW

\* Math.floor(rng() * n) for the value s / 0x7fffffff: the largest j with
\* j * 0x7fffffff <= s * n (n itself when s = 0x7fffffff)
RandomIndex(s, n) ==
    LET q == RNG_MODULUS \div n
        m == RNG_MODULUS % n
        AtLeast(j) == s >= j * q + ((j * m + n - 1) \div n)
    IN CHOOSE j \in 0..n : AtLeast(j) /\ (j = n \/ ~AtLeast(j + 1))

---------------------------------------------------------------------------
(* Construction *)

createSeededRandom(seed) == seed

Construct(seed, bossMaxHP, mode, now) ==
    [state |->
        [currentFrame |-> 0,
         playerAlive |-> TRUE,
         playerShieldZone |-> ZONE_CENTER,
         playerAttacking |-> FALSE,
         playerAttackFrame |-> 0,
         bossHP |-> bossMaxHP,
         bossMaxHP |-> bossMaxHP,
         bossStagger |-> 0,
         bossVulnerable |-> FALSE,
         bossVulnerableFrame |-> 0,
         bossDesperation |-> FALSE,
         bossCurrentAttack |-> Null,
         bossAttackStartFrame |-> 0,
         bossAttackHitProcessed |-> FALSE,
         perfectParries |-> 0,
         blocksPerformed |-> 0,
         damageDealt |-> 0,
         deathCount |-> 0,
         runStartTime |-> now,
         mode |-> mode,
         enabledAttacks |-> AttackIds],
     inputLog |-> << >>,
     rng |-> createSeededRandom(seed),
     forcedAttackQueue |-> << >>,
     runSeed |-> seed,
     ret |-> "void"]

\* An InputEvent; zone and accuracy are optional (NoValue when absent).
NoValue == -1
InputEvent(frame, type, zone, accuracy) ==
    [frame |-> frame, type |-> type, zone |-> zone, accuracy |-> accuracy]

Returning(e, value) == [e EXCEPT !.ret = value]

---------------------------------------------------------------------------
(* Private methods, each a function from the engine to the engine *)

\* mutant of dealDamageToBoss: bossHP is floored at 0
dealDamageToBoss_flooredAtZero(e, damage) ==
    [e EXCEPT !.state.bossHP = Max(0, @ - damage),
              !.state.damageDealt = @ + damage]

dealDamageToBoss(e, damage) ==
    [e EXCEPT !.state.bossHP = @ - damage,
              !.state.damageDealt = @ + damage]

\* mutants of triggerVulnerability: a reset that is left out
triggerVulnerability_keepsStagger(e) ==
    [e EXCEPT !.state.bossVulnerable = TRUE,
              !.state.bossVulnerableFrame = e.state.currentFrame,
              !.state.bossCurrentAttack = Null]

triggerVulnerability_keepsAttack(e) ==
    [e EXCEPT !.state.bossVulnerable = TRUE,
              !.state.bossVulnerableFrame = e.state.currentFrame,
              !.state.bossStagger = 0]

triggerVulnerability(e) ==
    [e EXCEPT !.state.bossVulnerable = TRUE,
              !.state.bossVulnerableFrame = e.state.currentFrame,
              !.state.bossStagger = 0,
              !.state.bossCurrentAttack = Null]

\* mutant of ParryStaggerGain: accuracy 0.9 counts as perfect
ParryStaggerGain_perfectFromThreshold(accuracy) ==
    IF accuracy >= ACCURACY_PERFECT_ABOVE
    THEN (PARRY_STAGGER * StaggerUnit * 3) \div 2
    ELSE PARRY_STAGGER * StaggerUnit

ParryStaggerGain(accuracy) ==
    IF accuracy > ACCURACY_PERFECT_ABOVE
    THEN (PARRY_STAGGER * StaggerUnit * 3) \div 2
    ELSE PARRY_STAGGER * StaggerUnit

handleParry(e, attack, accuracy) ==
    LET e1 == [e EXCEPT !.state.perfectParries = @ + 1,
                        !.state.bossStagger = @ + ParryStaggerGain(accuracy)]
        e2 == IF e1.state.bossStagger >= STAGGER_MAX * StaggerUnit
              THEN triggerVulnerability(e1)
              ELSE e1
    IN IF e2.state.bossDesperation
       THEN dealDamageToBoss(e2, CRITICAL_DAMAGE)
       ELSE e2

\* mutant of handleBlock: the threshold check is left out
handleBlock_neverTriggers(e) ==
    [e EXCEPT !.state.blocksPerformed = @ + 1,
              !.state.bossStagger = @ + BLOCK_STAGGER * StaggerUnit]

handleBlock(e) ==
    LET e1 == [e EXCEPT !.state.blocksPerformed = @ + 1,
                        !.state.bossStagger = @ + BLOCK_STAGGER * StaggerUnit]
    IN IF e1.state.bossStagger >= STAGGER_MAX * StaggerUnit
       THEN triggerVulnerability(e1)
       ELSE e1

\* mutant of handlePlayerDeath: a practice-mode hit is not counted
handlePlayerDeath_uncountedInPractice(e) ==
    IF e.state.mode = PRACTICE
    THEN e
    ELSE [e EXCEPT !.state.deathCount = @ + 1,
                   !.state.playerAlive = FALSE]

\* mutant of handlePlayerDeath: the practice-mode return is left out
handlePlayerDeath_killsInPractice(e) ==
    [e EXCEPT !.state.deathCount = @ + 1,
              !.state.playerAlive = FALSE]

handlePlayerDeath(e) ==
    LET e1 == [e EXCEPT !.state.deathCount = @ + 1]
    IN IF e1.state.mode = PRACTICE
       THEN e1
       ELSE [e1 EXCEPT !.state.playerAlive = FALSE]

executeAttack(e, attack) ==
    [e EXCEPT !.state.bossCurrentAttack = attack,
              !.state.bossAttackStartFrame = e.state.currentFrame,
              !.state.bossAttackHitProcessed = FALSE]

\* mutant of startBossAttack: the pool is the whole catalog in both modes
startBossAttack_ignoresEnabled(e) ==
    LET availableAttacks == FilterFrom(1, AttackIds)
        n == Len(availableAttacks)
    IN IF n = 0 THEN e
       ELSE LET r == RngNext(e.rng)
                attackIndex == RandomIndex(r, n)
            IN executeAttack([e EXCEPT !.rng = r],
                             IF attackIndex < n
                             THEN availableAttacks[attackIndex + 1]
                             ELSE Undefined)

startBossAttack(e) ==
    LET availableAttacks ==
            FilterFrom(1, IF e.state.mode = STANDARD
                          THEN AttackIds
                          ELSE e.state.enabledAttacks)
        n == Len(availableAttacks)
    IN IF n = 0 THEN e
       ELSE LET r == RngNext(e.rng)
                attackIndex == RandomIndex(r, n)
            IN executeAttack([e EXCEPT !.rng = r],
                             IF attackIndex < n
                             THEN availableAttacks[attackIndex + 1]
                             ELSE Undefined)

\* mutant of rollRandomAttack: the roll depends on the wall clock
rollRandomAttack_clockDependent(e) ==
    LET r == RngNext((e.rng + e.state.runStartTime) % RNG_MODULUS)
        e1 == [e EXCEPT !.rng = r]
    IN IF RollsAttack(r) THEN startBossAttack(e1) ELSE e1

\* the random branch of processBossAI: if (this.rng() < attackChance) ...
rollRandomAttack(e) ==
    LET r == RngNext(e.rng)
        e1 == [e EXCEPT !.rng = r]
    IN IF RollsAttack(r) THEN startBossAttack(e1) ELSE e1

\* mutant of processBossAI: attacks go on starting while the boss is open
processBossAI_ignoresVulnerable(e) ==
    IF Truthy(e.state.bossCurrentAttack) THEN e
    ELSE IF Len(e.forcedAttackQueue) > 0
         THEN LET forcedId == Head(e.forcedAttackQueue)
                  e1 == [e EXCEPT !.forcedAttackQueue = Tail(@)]
                  attack == FindAttack(forcedId)
              IN IF Truthy(attack)
                 THEN executeAttack(e1, attack)
                 ELSE rollRandomAttack(e1)
         ELSE rollRandomAttack(e)

\* mutant of processBossAI: a forced attack starts only if it is enabled
processBossAI_forcedNeedsEnabled(e) ==
    IF Truthy(e.state.bossCurrentAttack) \/ e.state.bossVulnerable THEN e
    ELSE IF Len(e.forcedAttackQueue) > 0
         THEN LET forcedId == Head(e.forcedAttackQueue)
                  e1 == [e EXCEPT !.forcedAttackQueue = Tail(@)]
                  attack == FindAttack(forcedId)
              IN IF Truthy(attack) /\ forcedId \in e.state.enabledAttacks
                 THEN executeAttack(e1, attack)
                 ELSE rollRandomAttack(e1)
         ELSE rollRandomAttack(e)

\* mutant of processBossAI: the queue is served from its tail (pop, not shift)
processBossAI_takesLast(e) ==
    IF Truthy(e.state.bossCurrentAttack) \/ e.state.bossVulnerable THEN e
    ELSE IF Len(e.forcedAttackQueue) > 0
         THEN LET forcedId == e.forcedAttackQueue[Len(e.forcedAttackQueue)]
                  e1 == [e EXCEPT !.forcedAttackQueue =
                                      SubSeq(@, 1, Len(@) - 1)]
                  attack == FindAttack(forcedId)
              IN IF Truthy(attack)
                 THEN executeAttack(e1, attack)
                 ELSE rollRandomAttack(e1)
         ELSE rollRandomAttack(e)

\* mutant of processBossAI: an attack in flight does not hold the boss back
processBossAI_replacesAttack(e) ==
    IF e.state.bossVulnerable THEN e
    ELSE IF Len(e.forcedAttackQueue) > 0
         THEN LET forcedId == Head(e.forcedAttackQueue)
                  e1 == [e EXCEPT !.forcedAttackQueue = Tail(@)]
                  attack == FindAttack(forcedId)
              IN IF Truthy(attack)
                 THEN executeAttack(e1, attack)
                 ELSE rollRandomAttack(e1)
         ELSE rollRandomAttack(e)

processBossAI(e) ==
    IF Truthy(e.state.bossCurrentAttack) \/ e.state.bossVulnerable THEN e
    ELSE IF Len(e.forcedAttackQueue) > 0
         THEN LET forcedId == Head(e.forcedAttackQueue)
                  e1 == [e EXCEPT !.forcedAttackQueue = Tail(@)]
                  attack == FindAttack(forcedId)
              IN IF Truthy(attack)
                 THEN executeAttack(e1, attack)
                 ELSE rollRandomAttack(e1)
         ELSE rollRandomAttack(e)

\* mutant of IsImpactFrame: the impact is taken when the active phase begins
IsImpactFrame_atActiveStart(attack, framesSinceStart) ==
    framesSinceStart - attack.windupFrames = 0

\* mutant of IsImpactFrame: the impact is taken one frame late
IsImpactFrame_oneFrameLate(attack, framesSinceStart) ==
    framesSinceStart - attack.windupFrames = IMPACT_DELAY_FRAMES + 1

\* attackFrame === COMBAT_CONFIG.IMPACT_DELAY_FRAMES
IsImpactFrame(attack, framesSinceStart) ==
    framesSinceStart - attack.windupFrames = IMPACT_DELAY_FRAMES

\* mutant of IsBlocked: the blockability flag is not looked at
IsBlocked_ignoresBlockability(e, attack) ==
    e.state.playerShieldZone = attack.zone

\* blocking && attack.isBlocking
IsBlocked(e, attack) ==
    e.state.playerShieldZone = attack.zone /\ attack.isBlocking

\* mutant of processAttackCollision: the impact does not mark the hit
\* processed
processAttackCollision_leavesHitOpen(e) ==
    LET attack == e.state.bossCurrentAttack IN
    IF ~Truthy(attack) THEN e
    ELSE LET framesSinceStart == e.state.currentFrame - e.state.bossAttackStartFrame
             totalFrames == attack.windupFrames + attack.activeFrames
                            + attack.recoveryFrames
             e1 == IF ~e.state.bossAttackHitProcessed
                      /\ IsImpactFrame(attack, framesSinceStart)
                   THEN IF IsBlocked(e, attack)
                        THEN handleBlock(e)
                        ELSE handlePlayerDeath(e)
                   ELSE e
         IN IF framesSinceStart >= totalFrames
            THEN [e1 EXCEPT !.state.bossCurrentAttack = Null]
            ELSE e1

\* mutant of processAttackCollision: the attack is cleared one frame late
processAttackCollision_expiresLate(e) ==
    LET attack == e.state.bossCurrentAttack IN
    IF ~Truthy(attack) THEN e
    ELSE LET framesSinceStart == e.state.currentFrame - e.state.bossAttackStartFrame
             totalFrames == attack.windupFrames + attack.activeFrames
                            + attack.recoveryFrames
             e1 == IF ~e.state.bossAttackHitProcessed
                      /\ IsImpactFrame(attack, framesSinceStart)
                   THEN LET hit == IF IsBlocked(e, attack)
                                   THEN handleBlock(e)
                                   ELSE handlePlayerDeath(e)
                        IN [hit EXCEPT !.state.bossAttackHitProcessed = TRUE]
                   ELSE e
         IN IF framesSinceStart > totalFrames
            THEN [e1 EXCEPT !.state.bossCurrentAttack = Null]
            ELSE e1

\* mutant of processAttackCollision: the impact is resolved whether or not
\* the hit was already processed
processAttackCollision_resolvesAgain(e) ==
    LET attack == e.state.bossCurrentAttack IN
    IF ~Truthy(attack) THEN e
    ELSE LET framesSinceStart == e.state.currentFrame - e.state.bossAttackStartFrame
             totalFrames == attack.windupFrames + attack.activeFrames
                            + attack.recoveryFrames
             e1 == IF IsImpactFrame(attack, framesSinceStart)
                   THEN LET hit == IF IsBlocked(e, attack)
                                   THEN handleBlock(e)
                                   ELSE handlePlayerDeath(e)
                        IN [hit EXCEPT !.state.bossAttackHitProcessed = TRUE]
                   ELSE e
         IN IF framesSinceStart >= totalFrames
            THEN [e1 EXCEPT !.state.bossCurrentAttack = Null]
            ELSE e1

processAttackCollision(e) ==
    LET attack == e.state.bossCurrentAttack IN
    IF ~Truthy(attack) THEN e
    ELSE LET framesSinceStart == e.state.currentFrame - e.state.bossAttackStartFrame
             totalFrames == attack.windupFrames + attack.activeFrames
                            + attack.recoveryFrames
             e1 == IF ~e.state.bossAttackHitProcessed
                      /\ IsImpactFrame(attack, framesSinceStart)
                   THEN LET hit == IF IsBlocked(e, attack)
                                   THEN handleBlock(e)
                                   ELSE handlePlayerDeath(e)
                        IN [hit EXCEPT !.state.bossAttackHitProcessed = TRUE]
                   ELSE e
         IN IF framesSinceStart >= totalFrames
            THEN [e1 EXCEPT !.state.bossCurrentAttack = Null]
            ELSE e1

\* mutant of processPlayerAttack: the strike deals CRITICAL_DAMAGE
processPlayerAttack_criticalDamage(e) ==
    IF ~e.state.playerAttacking THEN e
    ELSE LET framesSinceAttack == e.state.currentFrame - e.state.playerAttackFrame
             e1 == IF framesSinceAttack = STRIKE_DAMAGE_OFFSET
                      /\ e.state.bossVulnerable
                   THEN dealDamageToBoss(e, CRITICAL_DAMAGE)
                   ELSE e
         IN IF framesSinceAttack >= STRIKE_END_OFFSET
            THEN [e1 EXCEPT !.state.playerAttacking = FALSE]
            ELSE e1

\* mutant of processPlayerAttack: the strike lands whether or not the boss
\* is vulnerable
processPlayerAttack_ignoresVulnerability(e) ==
    IF ~e.state.playerAttacking THEN e
    ELSE LET framesSinceAttack == e.state.currentFrame - e.state.playerAttackFrame
             e1 == IF framesSinceAttack = STRIKE_DAMAGE_OFFSET
                   THEN dealDamageToBoss(e, SAFE_ATTACK_DAMAGE)
                   ELSE e
         IN IF framesSinceAttack >= STRIKE_END_OFFSET
            THEN [e1 EXCEPT !.state.playerAttacking = FALSE]
            ELSE e1

processPlayerAttack(e) ==
    IF ~e.state.playerAttacking THEN e
    ELSE LET framesSinceAttack == e.state.currentFrame - e.state.playerAttackFrame
             e1 == IF framesSinceAttack = STRIKE_DAMAGE_OFFSET
                      /\ e.state.bossVulnerable
                   THEN dealDamageToBoss(e, SAFE_ATTACK_DAMAGE)
                   ELSE e
         IN IF framesSinceAttack >= STRIKE_END_OFFSET
            THEN [e1 EXCEPT !.state.playerAttacking = FALSE]
            ELSE e1

\* mutant of decayStagger: no floor at 0
decayStagger_noFloor(e) ==
    IF ~e.state.bossVulnerable
    THEN [e EXCEPT !.state.bossStagger = @ - 1]
    ELSE e

\* the stagger decay of tick(): one unit per tick, floored at 0
decayStagger(e) ==
    IF ~e.state.bossVulnerable
    THEN [e EXCEPT !.state.bossStagger = Max(0, @ - 1)]
    ELSE e

\* mutant of processVulnerability: the timer test is strict
processVulnerability_oneFrameLate(e) ==
    IF ~e.state.bossVulnerable THEN e
    ELSE IF e.state.currentFrame - e.state.bossVulnerableFrame
               > VULNERABILITY_DURATION_FRAMES
         THEN [e EXCEPT !.state.bossVulnerable = FALSE,
                        !.state.bossDesperation = FALSE]
         ELSE e

\* mutant of processVulnerability: the boss turns desperate in the last
\* three tenths of the window
processVulnerability_entersDesperation(e) ==
    IF ~e.state.bossVulnerable THEN e
    ELSE LET framesInVulnerability ==
                 e.state.currentFrame - e.state.bossVulnerableFrame
         IN IF framesInVulnerability >= VULNERABILITY_DURATION_FRAMES
            THEN [e EXCEPT !.state.bossVulnerable = FALSE,
                           !.state.bossDesperation = FALSE]
            ELSE IF 10 * framesInVulnerability > 7 * VULNERABILITY_DURATION_FRAMES
                 THEN [e EXCEPT !.state.bossDesperation = TRUE]
                 ELSE e

processVulnerability(e) ==
    IF ~e.state.bossVulnerable THEN e
    ELSE LET framesInVulnerability ==
                 e.state.currentFrame - e.state.bossVulnerableFrame
         IN IF framesInVulnerability >= VULNERABILITY_DURATION_FRAMES
            THEN [e EXCEPT !.state.bossVulnerable = FALSE,
                           !.state.bossDesperation = FALSE]
            ELSE e

---------------------------------------------------------------------------
(* Public methods *)

setPracticeAttack(e, attackId, enabled) ==
    IF e.state.mode # PRACTICE THEN Returning(e, "void")
    ELSE Returning([e EXCEPT !.state.enabledAttacks =
                        IF enabled THEN @ \cup {attackId} ELSE @ \ {attackId}],
                   "void")

\* mutant of forceAttack: the guard on the mode is left out
forceAttack_anyMode(e, attackId) ==
    Returning([e EXCEPT !.forcedAttackQueue = Append(@, attackId)], "void")

forceAttack(e, attackId) ==
    IF e.state.mode # PRACTICE THEN Returning(e, "void")
    ELSE Returning([e EXCEPT !.forcedAttackQueue = Append(@, attackId)], "void")

\* mutant of moveShield: a move to the zone the shield is in is not logged
moveShield_logsOnlyChanges(e, zone) ==
    IF ~e.state.playerAlive \/ zone = e.state.playerShieldZone
    THEN Returning(e, "void")
    ELSE Returning([e EXCEPT !.state.playerShieldZone = zone,
                             !.inputLog = Append(@, InputEvent(e.state.currentFrame,
                                                               "block", zone, NoValue))],
                   "void")

moveShield(e, zone) ==
    IF ~e.state.playerAlive THEN Returning(e, "void")
    ELSE Returning([e EXCEPT !.state.playerShieldZone = zone,
                             !.inputLog = Append(@, InputEvent(e.state.currentFrame,
                                                               "block", zone, NoValue))],
                   "void")

\* mutant of InParryWindow: the window opens one frame late
InParryWindow_opensLate(attack, framesSinceStart) ==
    /\ framesSinceStart > attack.windupFrames - earlyWindow
    /\ framesSinceStart < attack.windupFrames + attack.activeFrames

\* the window test of attemptParry
InParryWindow(attack, framesSinceStart) ==
    /\ framesSinceStart >= attack.windupFrames - earlyWindow
    /\ framesSinceStart < attack.windupFrames + attack.activeFrames

\* mutant of MarkParried: the hit is not marked processed
MarkParried_leavesHitOpen(e) == e

\* this.state.bossAttackHitProcessed = true, after handleParry
MarkParried(e) == [e EXCEPT !.state.bossAttackHitProcessed = TRUE]

\* mutant of LogParry: the entry is not written
LogParry_dropsEntry(e, zone, accuracy) == e

\* this.inputLog.push({ frame, type: 'parry', zone, accuracy })
LogParry(e, zone, accuracy) ==
    [e EXCEPT !.inputLog = Append(@, InputEvent(e.state.currentFrame, "parry",
                                                zone, accuracy))]

\* mutant of attemptParry: a parry of the wrong zone inside the window uses
\* the attack up
attemptParry_missClosesWindow(e, zone, accuracy) ==
    IF ~e.state.playerAlive THEN Returning(e, "false")
    ELSE LET e1 == LogParry(e, zone, accuracy)
             attack == e1.state.bossCurrentAttack
             framesSinceStart == e1.state.currentFrame - e1.state.bossAttackStartFrame
         IN IF ~Truthy(attack) \/ e1.state.bossAttackHitProcessed
            THEN Returning(e1, "false")
            ELSE IF InParryWindow(attack, framesSinceStart)
                 THEN IF zone = attack.zone
                      THEN Returning(MarkParried(handleParry(e1, attack, accuracy)),
                                     "true")
                      ELSE Returning(MarkParried(e1), "false")
                 ELSE Returning(e1, "false")

attemptParry(e, zone, accuracy) ==
    IF ~e.state.playerAlive THEN Returning(e, "false")
    ELSE LET e1 == LogParry(e, zone, accuracy)
             attack == e1.state.bossCurrentAttack
             framesSinceStart == e1.state.currentFrame - e1.state.bossAttackStartFrame
         IN IF ~Truthy(attack) \/ e1.state.bossAttackHitProcessed
            THEN Returning(e1, "false")
            ELSE IF InParryWindow(attack, framesSinceStart) /\ zone = attack.zone
                 THEN Returning(MarkParried(handleParry(e1, attack, accuracy)),
                                "true")
                 ELSE Returning(e1, "false")

\* mutant of playerAttack: the guard on bossVulnerable is left out
playerAttack_ignoresVulnerability(e) ==
    IF ~e.state.playerAlive \/ e.state.playerAttacking THEN Returning(e, "void")
    ELSE Returning([e EXCEPT !.state.playerAttacking = TRUE,
                             !.state.playerAttackFrame = e.state.currentFrame,
                             !.inputLog = Append(@, InputEvent(e.state.currentFrame,
                                                               "attack", NoValue,
                                                               NoValue))],
                   "void")

playerAttack(e) ==
    IF ~e.state.playerAlive \/ e.state.playerAttacking THEN Returning(e, "void")
    ELSE IF ~e.state.bossVulnerable THEN Returning(e, "void")
    ELSE Returning([e EXCEPT !.state.playerAttacking = TRUE,
                             !.state.playerAttackFrame = e.state.currentFrame,
                             !.inputLog = Append(@, InputEvent(e.state.currentFrame,
                                                               "attack", NoValue,
                                                               NoValue))],
                   "void")

\* mutant of tick: a dead player is brought back
tick_respawns(e) ==
    IF ~e.state.playerAlive
    THEN Returning([e EXCEPT !.state.playerAlive = TRUE], "void")
    ELSE LET e1 == [e EXCEPT !.state.currentFrame = @ + 1]
             e2 == processBossAI(e1)
             e3 == processAttackCollision(e2)
             e4 == processPlayerAttack(e3)
             e5 == decayStagger(e4)
         IN Returning(processVulnerability(e5), "void")

\* mutant of tick: the guard on playerAlive is left out
tick_ignoresDeath(e) ==
    LET e1 == [e EXCEPT !.state.currentFrame = @ + 1]
        e2 == processBossAI(e1)
        e3 == processAttackCollision(e2)
        e4 == processPlayerAttack(e3)
        e5 == decayStagger(e4)
    IN Returning(processVulnerability(e5), "void")

\* mutant of tick: the frame is counted before the guard on playerAlive
tick_countsFrameWhenDead(e) ==
    LET e1 == [e EXCEPT !.state.currentFrame = @ + 1]
        e2 == processBossAI(e1)
        e3 == processAttackCollision(e2)
        e4 == processPlayerAttack(e3)
        e5 == decayStagger(e4)
    IN IF ~e.state.playerAlive THEN Returning(e1, "void")
       ELSE Returning(processVulnerability(e5), "void")

tick(e) ==
    IF ~e.state.playerAlive THEN Returning(e, "void")
    ELSE LET e1 == [e EXCEPT !.state.currentFrame = @ + 1]
             e2 == processBossAI(e1)
             e3 == processAttackCollision(e2)
             e4 == processPlayerAttack(e3)
             e5 == decayStagger(e4)
         IN Returning(processVulnerability(e5), "void")

SCORE_TIME_LIMIT_SECONDS == 300
SCORE_PER_PARRY == 50
SCORE_PER_SECOND == 10
SCORE_DEATH_PENALTY == 20
MS_PER_SECOND == 1000

\* mutant of MathRound: the fraction is dropped
MathRound_truncates(n, d) == n \div d

\* Math.round of the fraction n / d (d > 0): the nearest integer, a half
\* going up
MathRound(n, d) == (2 * n + d) \div (2 * d)

\* calculateScore(baseBossXP) called when Date.now() is `now` (milliseconds).
\* The sum is kept in thousandths of a point.  An elapsed time that is an odd
\* multiple of 50 ms puts the sum on an exact half, where the last bit of
\* the double decides which way Math.round goes; the clock values the driver
\* draws stay off those.
calculateScore(e, baseBossXP, now) ==
    LET remainingMs == Max(0, SCORE_TIME_LIMIT_SECONDS * MS_PER_SECOND
                                - (now - e.state.runStartTime))
        damageTaken == IF e.state.playerAlive THEN 0 ELSE 1
    IN IF e.state.mode = PRACTICE THEN 0
       ELSE MathRound(MS_PER_SECOND * baseBossXP
                        + MS_PER_SECOND * (e.state.perfectParries * SCORE_PER_PARRY)
                        + remainingMs * SCORE_PER_SECOND
                        - MS_PER_SECOND * (damageTaken * SCORE_DEATH_PENALTY),
                      MS_PER_SECOND)

\* The Set built by the constructor (new Set(...)): the one Set object of an
\* instance; setPracticeAttack adds to it and deletes from it in place.
EngineSet == "this.state.enabledAttacks"
\* The object this.state itself.
EngineState == 0

\* mutant of getState: the live object is handed out
getState_returnsLive(e, object) ==
    [object |-> EngineState,
     fields |-> [e.state EXCEPT !.enabledAttacks = EngineSet]]

\* return { ...this.state }: a new object (`object` is its identity) whose
\* properties are those of this.state, each copied as the spread copies it:
\* a number or a boolean by value, the Set by reference.  (bossCurrentAttack
\* is copied by reference too, to an element of the catalog or to null.)
getState(e, object) ==
    [object |-> object,
     fields |-> [e.state EXCEPT !.enabledAttacks = EngineSet]]

\* What a holder of the snapshot reads from it: its own fields and, through
\* the reference, the Set as it is now.
Read(e, snapshot) ==
    IF snapshot.object = EngineState THEN e.state
    ELSE [snapshot.fields EXCEPT !.enabledAttacks = e.state.enabledAttacks]

\* mutant of isBossDefeated: a boss at exactly zero hit points still stands
isBossDefeated_belowZero(e) == e.state.bossHP < 0

isBossDefeated(e) == e.state.bossHP <= 0

isRunOver(e) ==
    IF e.state.mode = PRACTICE THEN isBossDefeated(e)
    ELSE ~e.state.playerAlive \/ isBossDefeated(e)

---------------------------------------------------------------------------
(* The driver.  One action per public method; each applies the whole       *)
(* method to the instance.  The `Twin` forms feed the same call to both    *)
(* instances (two engines driven by one input sequence).                   *)

S == combat.state

Zones == {ZONE_LEFT, ZONE_CENTER, ZONE_RIGHT}

\* accuracies the driver passes: the 0.9 of the threshold and the default 1.0
Accuracies == {9, 10}

\* ids passed to forceAttack: a catalog id and one that names no attack
ForceIds == {"flail_sweep", "no_such_attack"}
\* ids passed to setPracticeAttack
ToggleIds == {"bash_center"}

\* the seeds, boss hit points and construction times (Date.now()) drawn at
\* construction
Seeds == {454}
BossMaxHPs == {10}
Clock == {0, 1}

\* bounds of the model
MaxFrame == 480
MaxLog == 4
MaxQueue == 1
WindowMaxFrame == 145
WindowMaxLog == 2
TwinMaxFrame == 130
CycleMaxFrame == 640
CycleMaxQueue == 4

Tick == combat' = tick(combat)
MoveShield(zone) == combat' = moveShield(combat, zone)
AttemptParry(zone, accuracy) == combat' = attemptParry(combat, zone, accuracy)
PlayerAttack == combat' = playerAttack(combat)
SetPracticeAttack(attackId, enabled) ==
    combat' = setPracticeAttack(combat, attackId, enabled)
ForceAttack(attackId) == combat' = forceAttack(combat, attackId)

TwinTick == twin' = tick(twin) /\ UNCHANGED snapshots
TwinMoveShield(zone) ==
    twin' = moveShield(twin, zone) /\ UNCHANGED snapshots
TwinAttemptParry(zone, accuracy) ==
    twin' = attemptParry(twin, zone, accuracy) /\ UNCHANGED snapshots
TwinPlayerAttack == twin' = playerAttack(twin) /\ UNCHANGED snapshots
TwinSetPracticeAttack(attackId, enabled) ==
    twin' = setPracticeAttack(twin, attackId, enabled) /\ UNCHANGED snapshots
TwinForceAttack(attackId) ==
    twin' = forceAttack(twin, attackId) /\ UNCHANGED snapshots

InFlight == Truthy(S.bossCurrentAttack)
FramesSinceStart == S.currentFrame - S.bossAttackStartFrame
ImpactOffset(attack) == attack.windupFrames + IMPACT_DELAY_FRAMES

\* Input timing of the scripted drivers: before the first tick, on the
\* frame the parry window of the attack in flight opens, and on the frame
\* after the boss opens.
AtSetup == S.currentFrame = 0
AtReaction ==
    InFlight /\ FramesSinceStart = S.bossCurrentAttack.windupFrames - earlyWindow
AtOpening == S.bossVulnerable /\ S.currentFrame = S.bossVulnerableFrame + 1

FrameBelow(maxFrame) == S.currentFrame < maxFrame
QueueRoom(maxQueue) == Len(combat.forcedAttackQueue) < maxQueue
LogRoom(maxLog) == Len(combat.inputLog) < maxLog
\* at most one logged input per frame
OneInputPerFrame ==
    IF combat.inputLog = << >> THEN TRUE
    ELSE combat.inputLog[Len(combat.inputLog)].frame < S.currentFrame

(* Spec: both modes; the practice controls are used before the first tick, *)
(* the shield is moved then or at a reaction frame, parries are aimed at   *)
(* the attacked zone at the reaction frame, strikes follow the opening.    *)
Init ==
    /\ \E seed \in Seeds, hp \in BossMaxHPs, mode \in {STANDARD, PRACTICE} :
           combat = Construct(seed, hp, mode, 0)
    /\ twin = combat
    /\ snapshots = << >>

Next ==
    \/ FrameBelow(MaxFrame) /\ Tick /\ UNCHANGED <<twin, snapshots>>
    \/ \E z \in Zones :
           /\ AtSetup \/ AtReaction
           /\ LogRoom(MaxLog) /\ OneInputPerFrame
           /\ MoveShield(z) /\ UNCHANGED <<twin, snapshots>>
    \/ \E a \in Accuracies :
           /\ AtReaction /\ LogRoom(MaxLog) /\ OneInputPerFrame
           /\ AttemptParry(S.bossCurrentAttack.zone, a) /\ UNCHANGED <<twin, snapshots>>
    \/ /\ AtReaction \/ AtOpening
       /\ LogRoom(MaxLog) /\ OneInputPerFrame
       /\ PlayerAttack /\ UNCHANGED <<twin, snapshots>>
    \/ \E id \in ToggleIds, en \in BOOLEAN :
           AtSetup /\ SetPracticeAttack(id, en) /\ UNCHANGED <<twin, snapshots>>
    \/ \E id \in ForceIds :
           AtSetup /\ QueueRoom(MaxQueue) /\ ForceAttack(id) /\ UNCHANGED <<twin, snapshots>>

Spec == Init /\ [][Next]_vars

(* SpecWindow: one attack's lifetime with the first input at any frame: a  *)
(* shield move or a parry of any zone.  The clicks that follow it, up to   *)
(* WindowMaxLog logged inputs in all, come in the same frame and are       *)
(* perfect parries of the attacked zone.  Parries go on after the player's *)
(* death, when they are no longer logged.                                  *)
FirstInput == combat.inputLog = << >>
RepeatedClick ==
    IF FirstInput THEN FALSE
    ELSE /\ combat.inputLog[Len(combat.inputLog)].frame = S.currentFrame
         /\ InFlight

WindowNext ==
    \/ FrameBelow(WindowMaxFrame) /\ Tick /\ UNCHANGED <<twin, snapshots>>
    \/ \E z \in Zones :
           FirstInput /\ LogRoom(WindowMaxLog) /\ MoveShield(z) /\ UNCHANGED <<twin, snapshots>>
    \/ \E z \in Zones, a \in Accuracies :
           /\ IF S.playerAlive THEN FirstInput /\ LogRoom(WindowMaxLog) ELSE TRUE
           /\ AttemptParry(z, a) /\ UNCHANGED <<twin, snapshots>>
    \/ /\ S.playerAlive /\ RepeatedClick /\ LogRoom(WindowMaxLog)
       /\ AttemptParry(S.bossCurrentAttack.zone, 10) /\ UNCHANGED <<twin, snapshots>>
    \/ \E id \in ForceIds :
           AtSetup /\ QueueRoom(MaxQueue) /\ ForceAttack(id) /\ UNCHANGED <<twin, snapshots>>

SpecWindow == Init /\ [][WindowNext]_vars

(* SpecTwin: two instances built from the same seed, boss hit points and   *)
(* mode, each at its own time, and fed the same calls.                     *)
TwinInit ==
    \E seed \in Seeds, hp \in BossMaxHPs, mode \in {STANDARD, PRACTICE},
       now1 \in Clock, now2 \in Clock :
        /\ combat = Construct(seed, hp, mode, now1)
        /\ twin = Construct(seed, hp, mode, now2)
        /\ snapshots = << >>

TwinNext ==
    \/ FrameBelow(TwinMaxFrame) /\ Tick /\ TwinTick
    \/ \E z \in Zones :
           /\ AtSetup \/ AtReaction
           /\ LogRoom(MaxLog) /\ OneInputPerFrame
           /\ MoveShield(z) /\ TwinMoveShield(z)
    \/ \E z \in Zones, a \in Accuracies :
           /\ AtReaction /\ LogRoom(MaxLog) /\ OneInputPerFrame
           /\ AttemptParry(z, a) /\ TwinAttemptParry(z, a)
    \/ /\ AtReaction /\ LogRoom(MaxLog) /\ OneInputPerFrame
       /\ PlayerAttack /\ TwinPlayerAttack
    \/ \E id \in ToggleIds, en \in BOOLEAN :
           AtSetup /\ SetPracticeAttack(id, en) /\ TwinSetPracticeAttack(id, en)
    \/ \E id \in ForceIds :
           AtSetup /\ QueueRoom(MaxQueue) /\ ForceAttack(id) /\ TwinForceAttack(id)

SpecTwin == TwinInit /\ [][TwinNext]_vars

(* SpecCycle: the stagger-to-vulnerable cycle.  bash_center is forced      *)
(* before the first tick; the shield stays where the constructor put it,   *)
(* parries are aimed at the attacked zone at the reaction frame.           *)
CycleNext ==
    \/ FrameBelow(CycleMaxFrame) /\ Tick /\ UNCHANGED <<twin, snapshots>>
    \/ \E a \in Accuracies :
           /\ AtReaction /\ LogRoom(MaxLog) /\ OneInputPerFrame
           /\ AttemptParry(S.bossCurrentAttack.zone, a) /\ UNCHANGED <<twin, snapshots>>
    \/ /\ AtOpening /\ LogRoom(MaxLog) /\ OneInputPerFrame
       /\ PlayerAttack /\ UNCHANGED <<twin, snapshots>>
    \/ /\ AtSetup /\ QueueRoom(CycleMaxQueue)
       /\ ForceAttack("bash_center") /\ UNCHANGED <<twin, snapshots>>

SpecCycle == Init /\ [][CycleNext]_vars

(* SpecLive: one vulnerability window from its trigger to its end, under   *)
(* the host's update loop, which keeps calling tick() for as long as the   *)
(* run lasts.  bash_center is forced before the first tick and parried     *)
(* perfectly at the reaction frame; one strike is tried, at any frame of   *)
(* the window.                                                             *)
LiveMaxFrame == 610
LiveMaxQueue == 3
LiveMaxLog == 4
LiveTick == FrameBelow(LiveMaxFrame) /\ Tick /\ UNCHANGED <<twin, snapshots>>
LiveNext ==
    \/ LiveTick
    \/ /\ AtReaction /\ LogRoom(LiveMaxLog) /\ OneInputPerFrame
       /\ AttemptParry(S.bossCurrentAttack.zone, 10) /\ UNCHANGED <<twin, snapshots>>
    \/ /\ S.bossVulnerable /\ S.playerAttackFrame = 0 /\ LogRoom(LiveMaxLog)
       /\ PlayerAttack /\ UNCHANGED <<twin, snapshots>>
    \/ /\ AtSetup /\ QueueRoom(LiveMaxQueue)
       /\ ForceAttack("bash_center") /\ UNCHANGED <<twin, snapshots>>

\* tick() advances the frame exactly when the player is alive
LiveTickEnabled == FrameBelow(LiveMaxFrame) /\ S.playerAlive

\* weak fairness of LiveTick, with ENABLED <<LiveTick>>_vars written out as
\* LiveTickEnabled
LiveTickFair == []<>(~LiveTickEnabled) \/ []<><<LiveTick>>_vars

SpecLive == Init /\ [][LiveNext]_vars /\ LiveTickFair

(* SpecScore: the score is read at any point of a short run, at several    *)
(* wall-clock times (milliseconds) and with several base values; the       *)
(* shield is moved before the first tick, parries are aimed at the         *)
(* attacked zone at the reaction frame.                                    *)
BaseXPs == {0, 1000}
ScoreClock == {0, 40, 299960, 300000, 300040, 400000}
ScoreMaxFrame == 305
ScoreMaxLog == 2
CalculateScore(baseBossXP, now) ==
    combat' = Returning(combat, ToString(calculateScore(combat, baseBossXP, now)))

ScoreNext ==
    \/ FrameBelow(ScoreMaxFrame) /\ Tick /\ UNCHANGED <<twin, snapshots>>
    \/ \E z \in Zones :
           AtSetup /\ LogRoom(ScoreMaxLog) /\ MoveShield(z) /\ UNCHANGED <<twin, snapshots>>
    \/ \E a \in Accuracies :
           /\ AtReaction /\ LogRoom(ScoreMaxLog) /\ OneInputPerFrame
           /\ AttemptParry(S.bossCurrentAttack.zone, a) /\ UNCHANGED <<twin, snapshots>>
    \/ \E baseBossXP \in BaseXPs, now \in ScoreClock :
           CalculateScore(baseBossXP, now) /\ UNCHANGED <<twin, snapshots>>

SpecScore == Init /\ [][ScoreNext]_vars

(* SpecDefeat: runs to the boss's defeat.  The engine is built with few    *)
(* hit points, none or less than none included; bash_center is forced or   *)
(* comes at random, every parry is perfect, and the boss is struck when it *)
(* opens and again when that strike has ended.  The shield may be moved    *)
(* out of the way before the first tick, which in standard mode gets the   *)
(* player killed.  The two end-of-run queries are asked at any time.       *)
DefeatHPs == {-1, 0, 1, 2}
DefeatMaxFrame == 440
DefeatMaxLog == 5
DefeatMaxQueue == 3

BoolString(b) == IF b THEN "true" ELSE "false"
IsBossDefeated == combat' = Returning(combat, BoolString(isBossDefeated(combat)))
IsRunOver == combat' = Returning(combat, BoolString(isRunOver(combat)))

AtFollowUp ==
    /\ S.bossVulnerable /\ ~S.playerAttacking
    /\ S.currentFrame = S.bossVulnerableFrame + 1 + STRIKE_END_OFFSET

DefeatInit ==
    /\ \E seed \in Seeds, hp \in DefeatHPs, mode \in {STANDARD, PRACTICE} :
           combat = Construct(seed, hp, mode, 0)
    /\ twin = combat
    /\ snapshots = << >>

DefeatNext ==
    \/ FrameBelow(DefeatMaxFrame) /\ Tick /\ UNCHANGED <<twin, snapshots>>
    \/ /\ AtReaction /\ LogRoom(DefeatMaxLog) /\ OneInputPerFrame
       /\ AttemptParry(S.bossCurrentAttack.zone, 10)
       /\ UNCHANGED <<twin, snapshots>>
    \/ /\ AtOpening \/ AtFollowUp
       /\ LogRoom(DefeatMaxLog) /\ OneInputPerFrame
       /\ PlayerAttack /\ UNCHANGED <<twin, snapshots>>
    \/ /\ AtSetup /\ QueueRoom(DefeatMaxQueue)
       /\ ForceAttack("bash_center") /\ UNCHANGED <<twin, snapshots>>
    \/ /\ AtSetup /\ LogRoom(DefeatMaxLog) /\ OneInputPerFrame
       /\ MoveShield(ZONE_LEFT) /\ UNCHANGED <<twin, snapshots>>
    \/ IsBossDefeated /\ UNCHANGED <<twin, snapshots>>
    \/ IsRunOver /\ UNCHANGED <<twin, snapshots>>

SpecDefeat == DefeatInit /\ [][DefeatNext]_vars

(* SpecSnapshot: a caller that keeps the objects getState returns and      *)
(* writes to them.  Snapshots are taken at any frame of the first frames   *)
(* of a run; once two are held, the holder may assign a field of any of    *)
(* them (playerShieldZone) and add an id to, or delete one from, the Set   *)
(* its enabledAttacks field refers to.                                     *)
MaxSnapshots == 3
SnapshotMaxFrame == 5
SnapshotIds == {"bash_center"}

GetState ==
    /\ snapshots' = Append(snapshots, getState(combat, Len(snapshots) + 1))
    /\ combat' = Returning(combat, "object")
    /\ UNCHANGED twin

\* snapshot.playerShieldZone = zone, for the i-th object handed out
SnapshotWrite(i, zone) ==
    IF snapshots[i].object = EngineState
    THEN /\ combat' = [combat EXCEPT !.state.playerShieldZone = zone]
         /\ UNCHANGED <<twin, snapshots>>
    ELSE /\ snapshots' = [snapshots EXCEPT ![i].fields.playerShieldZone = zone]
         /\ UNCHANGED <<combat, twin>>

\* snapshot.enabledAttacks.add(attackId) or .delete(attackId), for the i-th
\* object handed out: the call goes to the Set the field refers to
SnapshotSetAttack(i, attackId, enabled) ==
    /\ snapshots[i].fields.enabledAttacks = EngineSet
    /\ combat' = [combat EXCEPT !.state.enabledAttacks =
                      IF enabled THEN @ \cup {attackId} ELSE @ \ {attackId}]
    /\ UNCHANGED <<twin, snapshots>>

SnapshotMutation ==
    \/ \E i \in DOMAIN snapshots, zone \in Zones : SnapshotWrite(i, zone)
    \/ \E i \in DOMAIN snapshots, id \in SnapshotIds, en \in BOOLEAN :
           SnapshotSetAttack(i, id, en)

SnapshotNext ==
    \/ FrameBelow(SnapshotMaxFrame) /\ Tick /\ UNCHANGED <<twin, snapshots>>
    \/ Len(snapshots) < MaxSnapshots /\ GetState
    \/ \E i \in DOMAIN snapshots :
           Len(snapshots) >= 2 /\ SnapshotWrite(i, ZONE_LEFT)
    \/ \E i \in DOMAIN snapshots, id \in SnapshotIds, en \in BOOLEAN :
           Len(snapshots) >= 2 /\ SnapshotSetAttack(i, id, en)

SpecSnapshot == Init /\ [][SnapshotNext]_vars

(* SpecPool: random attacks from a chosen pool.  Before the first tick any *)
(* of the five attacks is switched off or on again; then the run goes on   *)
(* with no input.                                                          *)
PoolMaxFrame == 400

PoolNext ==
    \/ FrameBelow(PoolMaxFrame) /\ Tick /\ UNCHANGED <<twin, snapshots>>
    \/ \E id \in AttackIds, en \in BOOLEAN :
           AtSetup /\ SetPracticeAttack(id, en) /\ UNCHANGED <<twin, snapshots>>

SpecPool == Init /\ [][PoolNext]_vars

(* SpecQueue: the forced-attack queue.  Before the first tick up to        *)
(* QueueMaxLen ids are queued, catalog ids and an id the catalog does not  *)
(* have; the attacks that come are left alone or met with a perfect parry  *)
(* at the reaction frame.                                                  *)
QueueIds == {"bash_center", "flail_sweep", "no_such_attack"}
QueueMaxLen == 4
QueueMaxFrame == 600
QueueMaxLog == 3

QueueNext ==
    \/ FrameBelow(QueueMaxFrame) /\ Tick /\ UNCHANGED <<twin, snapshots>>
    \/ \E id \in QueueIds :
           /\ AtSetup /\ QueueRoom(QueueMaxLen)
           /\ ForceAttack(id) /\ UNCHANGED <<twin, snapshots>>
    \/ /\ AtReaction /\ LogRoom(QueueMaxLog) /\ OneInputPerFrame
       /\ AttemptParry(S.bossCurrentAttack.zone, 10)
       /\ UNCHANGED <<twin, snapshots>>

SpecQueue == Init /\ [][QueueNext]_vars

(* SpecRng: the generator under many seeds.  The engine is built with each *)
(* seed of RngSeeds and ticked with no input, so that every idle tick      *)
(* draws the roll and a successful roll draws the index.  The seeds are    *)
(* 0..RngSeedMax and the states next to the edges of the arithmetic:       *)
(* 230538014 is the one state whose exact successor                        *)
(* (s * 1103515245 + 12345) mod 2^31 is 0x7fffffff, 8162385 and 8162386    *)
(* are the last state whose product is below 2^53 and the first above.     *)
RngSeedMax == 150
RngMaxFrame == 60
RngSeeds ==
    (0..RngSeedMax)
      \cup {230538014, 230538013, 8162385, 8162386, 2147483646, 2147483647}

RngInit ==
    /\ \E seed \in RngSeeds, mode \in {STANDARD, PRACTICE} :
           combat = Construct(seed, 10, mode, 0)
    /\ twin = combat
    /\ snapshots = << >>

RngNextStep == FrameBelow(RngMaxFrame) /\ Tick /\ UNCHANGED <<twin, snapshots>>

SpecRng == RngInit /\ [][RngNextStep]_vars

(* SpecBarrage: one vulnerability window struck as often as it can be.     *)
(* bash_center is forced or comes at random and is parried at the reaction *)
(* frame or left to the shield; once the boss is open the player strikes   *)
(* on the first frame a strike can start or on the one after, and lets no  *)
(* second frame go by.  The frame bound holds one window, opened by the    *)
(* third parry or by the block of a fourth attack.                         *)
BarrageMaxFrame == 830
BarrageMaxLog == 13
BarrageMaxQueue == 4

\* a strike can start, and the frame is the first or the second on which
\* it can in a chain of strikes begun when the boss opened
AtStrikeSlot ==
    /\ S.bossVulnerable /\ ~S.playerAttacking
    /\ (S.currentFrame - S.bossVulnerableFrame) % STRIKE_END_OFFSET \in {0, 1}

\* the strike has waited its one frame
MustStrike ==
    /\ AtStrikeSlot /\ LogRoom(BarrageMaxLog)
    /\ (S.currentFrame - S.bossVulnerableFrame) % STRIKE_END_OFFSET = 1

BarrageNext ==
    \/ /\ FrameBelow(BarrageMaxFrame) /\ ~MustStrike
       /\ Tick /\ UNCHANGED <<twin, snapshots>>
    \/ \E a \in Accuracies :
           /\ AtReaction /\ LogRoom(BarrageMaxLog) /\ OneInputPerFrame
           /\ AttemptParry(S.bossCurrentAttack.zone, a)
           /\ UNCHANGED <<twin, snapshots>>
    \/ /\ AtStrikeSlot /\ LogRoom(BarrageMaxLog)
       /\ PlayerAttack /\ UNCHANGED <<twin, snapshots>>
    \/ /\ AtSetup /\ QueueRoom(BarrageMaxQueue)
       /\ ForceAttack("bash_center") /\ UNCHANGED <<twin, snapshots>>

SpecBarrage == Init /\ [][BarrageNext]_vars

(* SpecBypass: forced attacks against the enabled set.  bash_center and    *)
(* flail_sweep are switched off or on before the first tick and at the     *)
(* reaction frame of an attack in flight, and are forced before the first  *)
(* tick.                                                                   *)
BypassIds == {"bash_center", "flail_sweep"}
BypassMaxFrame == 400
BypassMaxQueue == 2

BypassNext ==
    \/ FrameBelow(BypassMaxFrame) /\ Tick /\ UNCHANGED <<twin, snapshots>>
    \/ \E id \in BypassIds, en \in BOOLEAN :
           /\ AtSetup \/ AtReaction
           /\ SetPracticeAttack(id, en) /\ UNCHANGED <<twin, snapshots>>
    \/ \E id \in BypassIds :
           /\ AtSetup /\ QueueRoom(BypassMaxQueue)
           /\ ForceAttack(id) /\ UNCHANGED <<twin, snapshots>>

SpecBypass == Init /\ [][BypassNext]_vars

---------------------------------------------------------------------------
(* Properties *)

LastInput(e) == e.inputLog[Len(e.inputLog)]

\* the step is a tick that advances the frame
FrameStep == S'.currentFrame = S.currentFrame + 1

\* the step is an attemptParry call (on a live player) aimed at zone z
ParryCall(z) ==
    /\ Len(combat'.inputLog) = Len(combat.inputLog) + 1
    /\ LastInput(combat').type = "parry"
    /\ LastInput(combat').zone = z

\* the step is the tick that brings an attack, not yet resolved, to its
\* impact offset windupFrames + IMPACT_DELAY_FRAMES
ImpactTick ==
    /\ FrameStep
    /\ InFlight
    /\ ~S.bossAttackHitProcessed
    /\ FramesSinceStart + 1 = ImpactOffset(S.bossCurrentAttack)

\* C1: in every reachable state 0 <= bossStagger <= STAGGER_MAX.
C1_StaggerBound ==
    /\ 0 <= S.bossStagger
    /\ S.bossStagger <= STAGGER_MAX * StaggerUnit

\* three perfect parries took the stagger over the threshold, and it was reset
C1_Witness ==
    /\ S.perfectParries = 3
    /\ S.bossVulnerable
    /\ S.bossStagger = 0

\* C2: whenever bossVulnerable is true, bossCurrentAttack is null.
C2_VulnerableExcludesAttack == S.bossVulnerable => S.bossCurrentAttack = Null

\* the parry of an attack in flight has just made the boss vulnerable
C2_Witness ==
    /\ S.bossVulnerable
    /\ S.bossVulnerableFrame = S.currentFrame
    /\ combat.ret = "true"
    /\ S.bossAttackStartFrame < S.currentFrame

\* C3: a tick on a live player adds exactly 1 to currentFrame, and nothing
\* else changes currentFrame: no command does, and no call at all once the
\* player is dead.
C3_FrameMonotonic ==
    [][ /\ (S.playerAlive /\ combat' = tick(combat))
            => S'.currentFrame = S.currentFrame + 1
        /\ S'.currentFrame # S.currentFrame
            => S.playerAlive /\ combat' = tick(combat) ]_vars

\* the player died at the impact of the first attack and the frame has
\* stayed there
C3_Witness ==
    /\ ~S.playerAlive
    /\ S.currentFrame > 0
    /\ S.currentFrame < MaxFrame

\* C4, as claimed: the snapshots of the two instances are identical in
\* every field, runStartTime included, after every step.
C4_SnapshotsIdentical == twin.state = combat.state

\* C4, amended: the snapshots of the two instances are identical in every
\* field other than runStartTime after every step.
C4_SnapshotsAgree ==
    [twin.state EXCEPT !.runStartTime = 0] = [combat.state EXCEPT !.runStartTime = 0]

\* two instances built at different times, after ticks, a random attack and
\* a successful parry
C4_Witness ==
    /\ twin.state.runStartTime # S.runStartTime
    /\ InFlight
    /\ S.perfectParries = 1
    /\ FramesSinceStart > ImpactOffset(S.bossCurrentAttack) - IMPACT_DELAY_FRAMES

IsBashCenter ==
    /\ InFlight
    /\ S.bossCurrentAttack.windupFrames = 100
    /\ S.bossCurrentAttack.activeFrames = 40

\* C5, as claimed: a parry aimed at the zone of an attack with windup 100
\* and 40 active frames returns true at every offset in [55, 140), and
\* false at offsets 54 and 140.
C5_WindowAsClaimed ==
    [][ (IsBashCenter /\ ParryCall(S.bossCurrentAttack.zone))
        => /\ FramesSinceStart \in 55..139 => combat'.ret = "true"
           /\ FramesSinceStart \in {54, 140} => combat'.ret = "false" ]_vars

\* C5, amended: such a parry returns true at every offset in [55, 125)
\* unless the attack has already been parried, and false at offset 54 and
\* at every offset from 125 on (140 included): the tick that reaches the
\* impact offset 125 has marked the hit processed.
C5_WindowUntilImpact ==
    [][ (IsBashCenter /\ ParryCall(S.bossCurrentAttack.zone))
        => /\ (FramesSinceStart \in 55..124 /\ ~S.bossAttackHitProcessed)
               => combat'.ret = "true"
           /\ (FramesSinceStart = 54 \/ FramesSinceStart >= 125)
               => combat'.ret = "false" ]_vars

\* a parry has succeeded on the last frame before the impact
C5_Witness ==
    /\ IsBashCenter
    /\ FramesSinceStart = 124
    /\ combat.ret = "true"

\* C6: the impact tick of a blockable, unparried attack whose zone the
\* shield is in adds exactly 1 to blocksPerformed and leaves playerAlive
\* and deathCount as they were, in both modes.
C6_BlockResolution ==
    [][ (ImpactTick /\ S.bossCurrentAttack.isBlocking
                    /\ S.playerShieldZone = S.bossCurrentAttack.zone)
        => /\ S'.blocksPerformed = S.blocksPerformed + 1
           /\ S'.playerAlive = S.playerAlive
           /\ S'.deathCount = S.deathCount ]_vars

\* the state after the impact tick of a blocked attack
C6_Witness ==
    /\ InFlight
    /\ FramesSinceStart = ImpactOffset(S.bossCurrentAttack)
    /\ S.bossCurrentAttack.isBlocking
    /\ S.playerShieldZone = S.bossCurrentAttack.zone
    /\ S.blocksPerformed = 1
    /\ S.perfectParries = 0

\* C7: the impact tick of an unparried attack that is non-blockable, or
\* whose zone the shield is not in, is a hit: deathCount gains 1 in both
\* modes, playerAlive becomes false in standard mode and stays true in
\* practice mode, blocksPerformed is unchanged and bossStagger gains nothing.
C7_HitResolution ==
    [][ (ImpactTick /\ (~S.bossCurrentAttack.isBlocking
                        \/ S.playerShieldZone # S.bossCurrentAttack.zone))
        => /\ S'.deathCount = S.deathCount + 1
           /\ S'.playerAlive = (S.mode = PRACTICE)
           /\ S'.blocksPerformed = S.blocksPerformed
           /\ S'.bossStagger <= S.bossStagger ]_vars

\* a non-blockable attack has hit a player whose shield was in its zone
C7_Witness ==
    /\ InFlight
    /\ FramesSinceStart = ImpactOffset(S.bossCurrentAttack)
    /\ ~S.bossCurrentAttack.isBlocking
    /\ S.playerShieldZone = S.bossCurrentAttack.zone
    /\ S.deathCount >= 1
    /\ S.bossAttackHitProcessed

\* C8: in practice mode playerAlive is true in every reachable state.
C8_PracticeNeverDies == S.mode = PRACTICE => S.playerAlive

\* a practice-mode player has been hit
C8_Witness ==
    /\ S.mode = PRACTICE
    /\ S.deathCount >= 1

\* C9: once attemptParry has returned true for an attack, the hit is marked
\* processed, and while an attack in flight has its hit marked processed no
\* step changes blocksPerformed, deathCount or playerAlive and the mark
\* stays for as long as that attack is in flight: the impact of a parried
\* attack never resolves, whatever the shield zone and the blockability.
C9_ParryPreemptsImpact ==
    /\ [](combat.ret = "true" => S.bossAttackHitProcessed)
    /\ [][ (InFlight /\ S.bossAttackHitProcessed)
           => /\ S'.blocksPerformed = S.blocksPerformed
              /\ S'.deathCount = S.deathCount
              /\ S'.playerAlive = S.playerAlive
              /\ InFlight' => /\ S'.bossAttackHitProcessed
                              /\ S'.bossCurrentAttack = S.bossCurrentAttack
                              /\ S'.bossAttackStartFrame = S.bossAttackStartFrame
       ]_vars

\* a parried non-blockable attack is past its impact offset, and nothing
\* was blocked and nobody was hit
C9_Witness ==
    /\ InFlight
    /\ ~S.bossCurrentAttack.isBlocking
    /\ FramesSinceStart > ImpactOffset(S.bossCurrentAttack)
    /\ S.perfectParries >= 1
    /\ S.deathCount = 0
    /\ S.playerAlive

\* the step is a block, or a successful parry, that takes the stagger to
\* STAGGER_MAX or above
BlockCrossing ==
    /\ S'.blocksPerformed = S.blocksPerformed + 1
    /\ S.bossStagger + BLOCK_STAGGER * StaggerUnit >= STAGGER_MAX * StaggerUnit
ParryCrossing ==
    /\ S'.perfectParries = S.perfectParries + 1
    /\ S.bossStagger
         + (IF LastInput(combat').accuracy > 9
            THEN (PARRY_STAGGER * StaggerUnit * 3) \div 2
            ELSE PARRY_STAGGER * StaggerUnit)
       >= STAGGER_MAX * StaggerUnit

\* C10: a block or a successful parry that takes bossStagger to STAGGER_MAX
\* or above ends with bossVulnerable true, bossStagger 0,
\* bossVulnerableFrame = currentFrame and bossCurrentAttack null; and
\* bossVulnerable becomes true in no other way.
C10_VulnerabilityTrigger ==
    [][ /\ (BlockCrossing \/ ParryCrossing)
            => /\ S'.bossVulnerable
               /\ S'.bossStagger = 0
               /\ S'.bossVulnerableFrame = S'.currentFrame
               /\ S'.bossCurrentAttack = Null
        /\ (~S.bossVulnerable /\ S'.bossVulnerable)
            => (BlockCrossing \/ ParryCrossing) ]_vars

\* a block has made the boss vulnerable
C10_Witness ==
    /\ S.bossVulnerable
    /\ S.bossVulnerableFrame = S.currentFrame
    /\ S.blocksPerformed >= 1
    /\ combat.ret = "void"

\* the frame at which the vulnerability window of the current state ends
WindowEnd == S.bossVulnerableFrame + VULNERABILITY_DURATION_FRAMES

\* C11: a vulnerability window that starts at frame v ends exactly on the
\* tick that brings currentFrame to v + VULNERABILITY_DURATION_FRAMES:
\* bossVulnerable is true in every state with currentFrame in [v, v+179],
\* bossVulnerable and bossDesperation are both false after that tick, and a
\* window whose end lies within the run does end when ticks keep coming.
C11_VulnerabilityWindow ==
    /\ [](S.bossVulnerable
            => S.bossVulnerableFrame <= S.currentFrame /\ S.currentFrame < WindowEnd)
    /\ [][ S.bossVulnerable
           => /\ S'.bossVulnerableFrame = S.bossVulnerableFrame
              /\ S'.currentFrame < WindowEnd => S'.bossVulnerable
              /\ S'.currentFrame = WindowEnd
                   => ~S'.bossVulnerable /\ ~S'.bossDesperation ]_vars
    /\ (S.bossVulnerable /\ WindowEnd <= LiveMaxFrame) ~> ~S.bossVulnerable

\* the tick that reached v + VULNERABILITY_DURATION_FRAMES has ended a window
C11_Witness ==
    /\ ~S.bossVulnerable
    /\ ~S.bossDesperation
    /\ S.bossVulnerableFrame > 0
    /\ S.currentFrame = WindowEnd

\* the engine r differs from the current one in nothing but the return value
SameEngine(r) ==
    /\ r.state = S
    /\ r.rng = combat.rng
    /\ r.forcedAttackQueue = combat.forcedAttackQueue
    /\ r.inputLog = combat.inputLog
    /\ r.runSeed = combat.runSeed

\* C12: when playerAlive is false, tick() changes nothing: every CombatState
\* field, the generator state, the forced-attack queue and the input log are
\* the same before and after the call.
C12_TickDeadNoOp == ~S.playerAlive => SameEngine(tick(combat))

\* a standard-mode player has been hit at the impact of an attack, and ticks
\* have been called since
C12_Witness ==
    /\ ~S.playerAlive
    /\ S.deathCount = 1
    /\ InFlight
    /\ FramesSinceStart = ImpactOffset(S.bossCurrentAttack)
    /\ combat.ret = "void"

\* the conditions under which playerAttack() starts a strike
CanStrike == S.playerAlive /\ ~S.playerAttacking /\ S.bossVulnerable

\* the state and the log hold a strike started at the current frame of S
StrikeStarted(state, log) ==
    /\ state = [S EXCEPT !.playerAttacking = TRUE,
                         !.playerAttackFrame = S.currentFrame]
    /\ log = Append(combat.inputLog,
                    [frame |-> S.currentFrame, type |-> "attack",
                     zone |-> NoValue, accuracy |-> NoValue])

\* C13: playerAttack() starts a strike (playerAttacking true,
\* playerAttackFrame = currentFrame, one 'attack' entry appended to the input
\* log) only when the player is alive, no strike is in progress and the boss
\* is vulnerable; in every other case it changes neither the state nor the
\* input log.  Stated of the call in every reachable state, and of every
\* step that starts a strike or logs an attack.
C13_PlayerAttackGuard ==
    /\ [](IF CanStrike
          THEN StrikeStarted(playerAttack(combat).state, playerAttack(combat).inputLog)
          ELSE SameEngine(playerAttack(combat)))
    /\ [][ (\/ S'.playerAttacking /\ ~S.playerAttacking
            \/ S'.playerAttackFrame # S.playerAttackFrame
            \/ /\ Len(combat'.inputLog) > Len(combat.inputLog)
               /\ LastInput(combat').type = "attack")
           => CanStrike /\ StrikeStarted(S', combat'.inputLog) ]_vars

\* a strike has just been started on a vulnerable boss
C13_Witness ==
    /\ S.playerAttacking
    /\ S.playerAttackFrame = S.currentFrame
    /\ S.bossVulnerable
    /\ Len(combat.inputLog) > 0
    /\ LastInput(combat).type = "attack"

\* bossVulnerable at the point of the next tick where the strike is
\* resolved: after the boss AI and the collision step, before the timer
VulnerableAtStrike ==
    processAttackCollision(
        processBossAI([combat EXCEPT !.state.currentFrame = @ + 1])).state.bossVulnerable

\* the damage the claim gives the tick of this step
StrikeDamage ==
    IF S'.currentFrame = S.playerAttackFrame + STRIKE_DAMAGE_OFFSET
       /\ VulnerableAtStrike
    THEN SAFE_ATTACK_DAMAGE
    ELSE 0

\* C14: a strike started at frame a deals exactly SAFE_ATTACK_DAMAGE to the
\* boss on the tick reaching frame a+10 if and only if bossVulnerable is
\* true at that point of the tick, deals no damage on any other tick, and
\* playerAttacking becomes false on the tick reaching frame a+20 whether or
\* not damage was dealt.
C14_StrikeResolution ==
    [][ /\ (FrameStep /\ S.playerAttacking)
            => /\ S'.bossHP = S.bossHP - StrikeDamage
               /\ S'.damageDealt = S.damageDealt + StrikeDamage
               /\ S'.playerAttacking
                    = (S'.currentFrame < S.playerAttackFrame + STRIKE_END_OFFSET)
        /\ (S'.bossHP # S.bossHP \/ S'.damageDealt # S.damageDealt)
            => /\ FrameStep /\ S.playerAttacking
               /\ S'.currentFrame = S.playerAttackFrame + STRIKE_DAMAGE_OFFSET
               /\ S.bossVulnerable ]_vars

\* a strike started too late in the window has ended without damage
C14_Witness ==
    /\ ~S.playerAttacking
    /\ S.playerAttackFrame > 0
    /\ S.currentFrame = S.playerAttackFrame + STRIKE_END_OFFSET
    /\ S.damageDealt = 0
    /\ S.bossHP = S.bossMaxHP

\* the engine r is the current one with the shield in zone z and one more
\* 'block' entry in the log
ShieldMoved(r, z) ==
    /\ r.state = [S EXCEPT !.playerShieldZone = z]
    /\ r.inputLog = Append(combat.inputLog,
                           [frame |-> S.currentFrame, type |-> "block",
                            zone |-> z, accuracy |-> NoValue])
    /\ r.rng = combat.rng
    /\ r.forcedAttackQueue = combat.forcedAttackQueue

\* C15: moveShield(zone) called while the player is alive sets
\* playerShieldZone to zone, appends exactly one 'block' entry to the input
\* log even when the zone is unchanged, and changes no other state field;
\* called while the player is dead it changes nothing.  Stated of the call
\* in every reachable state, and of every step that logs a block or moves
\* the shield.
C15_MoveShieldEffect ==
    /\ [](\A z \in Zones :
            IF S.playerAlive
            THEN ShieldMoved(moveShield(combat, z), z)
            ELSE SameEngine(moveShield(combat, z)))
    /\ [][ (\/ S'.playerShieldZone # S.playerShieldZone
            \/ /\ Len(combat'.inputLog) > Len(combat.inputLog)
               /\ LastInput(combat').type = "block")
           => S.playerAlive /\ ShieldMoved(combat', S'.playerShieldZone) ]_vars

\* the first call moved the shield to the zone it was already in, and was
\* logged
C15_Witness ==
    /\ Len(combat.inputLog) = 1
    /\ LastInput(combat).type = "block"
    /\ LastInput(combat).zone = ZONE_CENTER
    /\ S.playerShieldZone = ZONE_CENTER
    /\ S.currentFrame > 0

\* the log of the engine r is the current one with one more 'parry' entry
ParryLogged(r, z, a) ==
    r.inputLog = Append(combat.inputLog,
                        [frame |-> S.currentFrame, type |-> "parry",
                         zone |-> z, accuracy |-> a])

\* C16, as claimed: every call to attemptParry appends exactly one 'parry'
\* InputEvent (current frame, zone, accuracy) to the input log, whatever the
\* outcome of the call.
C16_ParryAlwaysLogged ==
    \A z \in Zones, a \in Accuracies : ParryLogged(attemptParry(combat, z, a), z, a)

\* C16, amended: every call to attemptParry made while the player is alive
\* appends exactly one 'parry' InputEvent (current frame, zone, accuracy),
\* whatever the outcome; a call made while the player is dead returns false
\* and leaves the log as it was.
C16_ParryLoggedWhileAlive ==
    \A z \in Zones, a \in Accuracies :
        IF S.playerAlive
        THEN ParryLogged(attemptParry(combat, z, a), z, a)
        ELSE /\ attemptParry(combat, z, a).inputLog = combat.inputLog
             /\ attemptParry(combat, z, a).ret = "false"

\* a parry made with no attack in flight has failed, and is in the log
C16_Witness ==
    /\ combat.ret = "false"
    /\ ~InFlight
    /\ Len(combat.inputLog) = 1
    /\ LastInput(combat).type = "parry"
    /\ LastInput(combat).frame = S.currentFrame

\* C17: whenever attemptParry returns false (no attack in flight, impact
\* already processed, offset outside the window, or zone mismatch), no
\* CombatState field changes, nor do the generator and the forced queue.
C17_FailedParryNoEffect ==
    \A z \in Zones, a \in Accuracies :
        attemptParry(combat, z, a).ret = "false"
        => /\ attemptParry(combat, z, a).state = S
           /\ attemptParry(combat, z, a).rng = combat.rng
           /\ attemptParry(combat, z, a).forcedAttackQueue = combat.forcedAttackQueue

\* a parry of the wrong zone, inside the window of an unresolved attack,
\* has failed
C17_Witness ==
    /\ combat.ret = "false"
    /\ InFlight
    /\ ~S.bossAttackHitProcessed
    /\ InParryWindow(S.bossCurrentAttack, FramesSinceStart)
    /\ LastInput(combat).type = "parry"
    /\ LastInput(combat).frame = S.currentFrame
    /\ LastInput(combat).zone # S.bossCurrentAttack.zone

\* the stagger the claim gives a successful parry of accuracy a (in tenths),
\* before the threshold check
RaisedStagger(a) ==
    S.bossStagger + (IF a > 9
                     THEN (PARRY_STAGGER * StaggerUnit * 3) \div 2
                     ELSE PARRY_STAGGER * StaggerUnit)

\* C18: whenever attemptParry returns true, perfectParries increases by
\* exactly 1 (for any accuracy) and bossStagger gains PARRY_STAGGER x 1.5 if
\* accuracy > 0.9, else PARRY_STAGGER x 1.0 (accuracy exactly 0.9 gets the
\* 1.0 multiplier), before the vulnerability threshold check is applied:
\* the stagger afterwards is the raised value, or 0 if that reached
\* STAGGER_MAX.
C18_ParryReward ==
    \A z \in Zones, a \in Accuracies :
        attemptParry(combat, z, a).ret = "true"
        => /\ attemptParry(combat, z, a).state.perfectParries = S.perfectParries + 1
           /\ attemptParry(combat, z, a).state.bossStagger
                = (IF RaisedStagger(a) >= STAGGER_MAX * StaggerUnit
                   THEN 0
                   ELSE RaisedStagger(a))

\* the first parry, of accuracy exactly 0.9, has succeeded and earned
\* PARRY_STAGGER x 1.0
C18_Witness ==
    /\ combat.ret = "true"
    /\ LastInput(combat).accuracy = 9
    /\ LastInput(combat).frame = S.currentFrame
    /\ S.perfectParries = 1
    /\ S.bossStagger = PARRY_STAGGER * StaggerUnit

\* C19: in standard mode setPracticeAttack and forceAttack are no-ops: they
\* leave enabledAttacks, the forced-attack queue and every other state field
\* unchanged, so in standard mode every attack stays enabled and the forced
\* queue stays empty, whatever calls were made.
C19_PracticeControlsInert ==
    S.mode = STANDARD
    => /\ \A id \in AttackIds \cup ForceIds, en \in BOOLEAN :
              SameEngine(setPracticeAttack(combat, id, en))
       /\ \A id \in AttackIds \cup ForceIds : SameEngine(forceAttack(combat, id))
       /\ S.enabledAttacks = AttackIds
       /\ combat.forcedAttackQueue = << >>

\* a standard-mode run in which the boss has started bash_center, the
\* attack the toggle would have disabled, and no forced attack
C19_Witness ==
    /\ S.mode = STANDARD
    /\ InFlight
    /\ S.bossCurrentAttack.id \in ToggleIds
    /\ S.bossCurrentAttack.id \notin ForceIds
    /\ S.bossAttackStartFrame > 0

\* the score the claim gives, in hundredths of a point: baseXP
\* + 50 x perfectParries + 10 x max(0, 300 - elapsedSeconds)
\* - 20 x (1 if the player is dead, else 0)
ClaimedScoreHundredths(baseXP, now) ==
    100 * baseXP + 100 * 50 * S.perfectParries
      + Max(0, 300 * 1000 - (now - S.runStartTime))
      - 100 * 20 * (IF S.playerAlive THEN 0 ELSE 1)

\* with the other inputs fixed the score never increases as time passes,
\* and no longer changes after 300 seconds
ScoreDecreasesToFloor(baseXP) ==
    \A now1 \in ScoreClock, now2 \in ScoreClock :
        /\ now1 <= now2
             => calculateScore(combat, baseXP, now2) <= calculateScore(combat, baseXP, now1)
        /\ (now1 - S.runStartTime >= 300 * 1000 /\ now2 - S.runStartTime >= 300 * 1000)
             => calculateScore(combat, baseXP, now2) = calculateScore(combat, baseXP, now1)

\* C20, as claimed: calculateScore(baseXP) returns 0 in practice mode; in
\* standard mode it returns exactly baseXP + 50 x perfectParries
\* + 10 x max(0, 300 - elapsedSeconds) - 20 x (1 if dead, else 0), never
\* increases as elapsed time grows and stops decreasing after 300 seconds.
C20_ScoreExact ==
    \A baseXP \in BaseXPs :
        /\ \A now \in ScoreClock :
               IF S.mode = PRACTICE
               THEN calculateScore(combat, baseXP, now) = 0
               ELSE 100 * calculateScore(combat, baseXP, now)
                      = ClaimedScoreHundredths(baseXP, now)
        /\ ScoreDecreasesToFloor(baseXP)

\* C20, amended: calculateScore(baseXP) returns 0 in practice mode; in
\* standard mode it returns that expression rounded to the nearest integer
\* (it is within half a point of it), never increases as elapsed time grows
\* and stops decreasing after 300 seconds.
C20_ScoreRounded ==
    \A baseXP \in BaseXPs :
        /\ \A now \in ScoreClock :
               IF S.mode = PRACTICE
               THEN calculateScore(combat, baseXP, now) = 0
               ELSE /\ 100 * calculateScore(combat, baseXP, now) - 50
                         <= ClaimedScoreHundredths(baseXP, now)
                    /\ ClaimedScoreHundredths(baseXP, now)
                         <= 100 * calculateScore(combat, baseXP, now) + 50
        /\ ScoreDecreasesToFloor(baseXP)

\* the score of a standard-mode run with one parry and a dead player has
\* been read within 40 ms of the start: 1000 + 50 + 2999.6 - 20 comes out as
\* 4030, as 1000 + 50 + 3000 - 20 does
C20_Witness ==
    /\ S.mode = STANDARD
    /\ ~S.playerAlive
    /\ S.perfectParries = 1
    /\ combat.ret = "4030"

\* C21: isBossDefeated() is true exactly when bossHP <= 0; isRunOver() is
\* isBossDefeated() in practice mode and (not playerAlive, or
\* isBossDefeated()) in standard mode; a call of either query returns that
\* value and changes nothing of the engine.
C21_EndQueries ==
    /\ [](/\ isBossDefeated(combat) = (S.bossHP <= 0)
          /\ isRunOver(combat) = IF S.mode = PRACTICE
                                 THEN isBossDefeated(combat)
                                 ELSE ~S.playerAlive \/ isBossDefeated(combat))
    /\ [][/\ IsBossDefeated =>
                /\ SameEngine(combat')
                /\ combat'.ret = BoolString(S.bossHP <= 0)
          /\ IsRunOver =>
                /\ SameEngine(combat')
                /\ combat'.ret = BoolString(IF S.mode = PRACTICE
                                            THEN S.bossHP <= 0
                                            ELSE ~S.playerAlive \/ S.bossHP <= 0)]_vars

\* a living standard-mode player has struck a two-point boss twice and has
\* been told the run is over
C21_Witness ==
    /\ S.mode = STANDARD
    /\ S.playerAlive
    /\ S.bossMaxHP = 2
    /\ S.bossHP = 0
    /\ S.damageDealt = 2
    /\ combat.ret = "true"

\* C22: a getState() call changes nothing of the engine and returns a new
\* object, distinct from the live state and from every object returned
\* before; called again with no tick or command in between, it returns an
\* object equal to the earlier one field for field.
C22_SnapshotCopies ==
    [][Len(snapshots') = Len(snapshots) + 1 =>
          LET new == snapshots'[Len(snapshots')] IN
          /\ SameEngine(combat')
          /\ new.object # EngineState
          /\ \A i \in DOMAIN snapshots : new.object # snapshots[i].object
          /\ (Len(snapshots) = 1 /\ combat.ret = "object") =>
                 new.fields = snapshots[1].fields]_vars

\* two snapshots of one state, taken back to back while an attack is in
\* flight: equal fields, two objects
C22_Witness ==
    /\ Len(snapshots) >= 2
    /\ snapshots[1].fields = snapshots[2].fields
    /\ snapshots[1].object # snapshots[2].object
    /\ Truthy(snapshots[2].fields.bossCurrentAttack)
    /\ snapshots[2].fields.currentFrame = S.currentFrame

\* C23: writing to a snapshot, adding ids to and deleting ids from its
\* enabledAttacks set included, changes neither the live state of the
\* engine nor what any other snapshot reads.
C23_SnapshotIsolated ==
    [][SnapshotMutation =>
          /\ S' = S
          /\ \A j \in DOMAIN snapshots :
                 snapshots'[j] = snapshots[j] =>
                     Read(combat', snapshots'[j]) = Read(combat, snapshots[j])]_vars

\* a standard-mode engine whose live enabledAttacks has lost bash_center:
\* setPracticeAttack does nothing in that mode, the delete came through a
\* snapshot
C23_Witness ==
    /\ S.mode = STANDARD
    /\ "bash_center" \notin S.enabledAttacks
    /\ Len(snapshots) >= 2

\* C24: the constructor rejects a non-positive bossMaxHP: no instance has
\* bossMaxHP <= 0, and none is defeated at frame 0.
C24_ConstructionValidated ==
    /\ S.bossMaxHP > 0
    /\ ~(S.currentFrame = 0 /\ isBossDefeated(combat))

\* an instance built with no hit points has run for a frame, its run over
\* from the start
C24_Witness ==
    /\ S.bossMaxHP = 0
    /\ S.currentFrame = 1
    /\ isRunOver(combat)

\* the step resolves an attack: a block or a hit at impact, or a successful
\* parry
Resolution ==
    \/ S'.blocksPerformed # S.blocksPerformed
    \/ S'.deathCount # S.deathCount
    \/ S'.perfectParries # S.perfectParries

\* C25: an attack instance is resolved at most once.  A step that blocks,
\* hits or parries does exactly one of the three, to an attack in flight
\* whose hit is not yet processed, and leaves it processed if it is still in
\* flight; an attack in flight whose hit is processed is the same instance,
\* still processed, for as long as it is in flight, and is not resolved.
C25_ResolvedOnce ==
    [][/\ Resolution =>
            /\ InFlight /\ ~S.bossAttackHitProcessed
            /\ (S'.blocksPerformed - S.blocksPerformed)
                 + (S'.deathCount - S.deathCount)
                 + (S'.perfectParries - S.perfectParries) = 1
            /\ S'.blocksPerformed >= S.blocksPerformed
            /\ S'.deathCount >= S.deathCount
            /\ S'.perfectParries >= S.perfectParries
            /\ InFlight' => S'.bossAttackHitProcessed
       /\ (InFlight /\ S.bossAttackHitProcessed) =>
            /\ ~Resolution
            /\ InFlight' => /\ S'.bossAttackHitProcessed
                            /\ S'.bossAttackStartFrame = S.bossAttackStartFrame
       /\ (InFlight /\ InFlight') =>
            /\ S'.bossCurrentAttack = S.bossCurrentAttack
            /\ S'.bossAttackStartFrame = S.bossAttackStartFrame]_vars

\* a parried bash_center has passed its impact offset under a shield in its
\* zone, a second click was made in the frame of the parry, and the counts
\* stand at one parry, no block, no hit
C25_Witness ==
    /\ InFlight /\ IsBashCenter
    /\ S.playerShieldZone = ZONE_CENTER
    /\ FramesSinceStart > ImpactOffset(S.bossCurrentAttack)
    /\ Len(combat.inputLog) = 2
    /\ S.perfectParries = 1
    /\ S.blocksPerformed = 0
    /\ S.deathCount = 0

\* the step puts an attack in flight
AttackStarts ==
    /\ InFlight'
    /\ \/ ~InFlight
       \/ S'.bossCurrentAttack # S.bossCurrentAttack
       \/ S'.bossAttackStartFrame # S.bossAttackStartFrame

TotalFrames(attack) ==
    attack.windupFrames + attack.activeFrames + attack.recoveryFrames

\* C26: an attack in flight is never replaced.  An attack starts only on a
\* tick taken with no attack in flight and the boss not vulnerable, at the
\* frame that tick reaches; while an attack is in flight bossCurrentAttack
\* and bossAttackStartFrame do not change, and it leaves only by expiry or
\* when vulnerability is triggered.
C26_NeverReplaced ==
    [][/\ AttackStarts =>
            /\ FrameStep
            /\ ~InFlight /\ ~S.bossVulnerable
            /\ S'.bossAttackStartFrame = S'.currentFrame
       /\ (InFlight /\ InFlight') =>
            /\ S'.bossCurrentAttack = S.bossCurrentAttack
            /\ S'.bossAttackStartFrame = S.bossAttackStartFrame
       /\ (InFlight /\ ~InFlight') =>
            \/ /\ FrameStep
               /\ S'.currentFrame - S.bossAttackStartFrame
                    >= TotalFrames(S.bossCurrentAttack)
            \/ ~S.bossVulnerable /\ S'.bossVulnerable]_vars

\* the second attack of a run is under way: it started three frames after
\* the first had run its 170 frames from frame 2
C26_Witness ==
    /\ InFlight
    /\ S.bossAttackStartFrame = 175
    /\ S.currentFrame > 300

\* C27: bossDesperation is false in every reachable state, so an
\* attemptParry call, with whatever zone and accuracy, changes neither
\* bossHP nor damageDealt, and CRITICAL_DAMAGE is never dealt: bossHP only
\* ever changes by SAFE_ATTACK_DAMAGE.
C27_NoDesperation ==
    /\ [](/\ ~S.bossDesperation
          /\ \A z \in Zones, a \in Accuracies :
                 /\ attemptParry(combat, z, a).state.bossHP = S.bossHP
                 /\ attemptParry(combat, z, a).state.damageDealt = S.damageDealt)
    /\ [][S'.bossHP # S.bossHP =>
              /\ S'.bossHP = S.bossHP - SAFE_ATTACK_DAMAGE
              /\ SAFE_ATTACK_DAMAGE # CRITICAL_DAMAGE]_vars

\* the third perfect parry has just returned true and opened the boss, whose
\* hit points are untouched
C27_Witness ==
    /\ combat.ret = "true"
    /\ S.perfectParries = 3
    /\ S.bossVulnerable
    /\ S.bossHP = S.bossMaxHP
    /\ S.damageDealt = 0

\* the step starts an attack picked at random: it draws from the generator
RandomStart == AttackStarts /\ combat'.rng # combat.rng

\* C28: an attack started at random is in the pool of the tick that starts
\* it.  In practice mode its id is in enabledAttacks, so none starts while
\* enabledAttacks holds no catalog id; in standard mode it is the catalog
\* entry the draw picks out of all five.
C28_StartedFromPool ==
    [][RandomStart =>
          IF S.mode = PRACTICE
          THEN /\ S'.bossCurrentAttack.id \in S.enabledAttacks
               /\ S'.bossCurrentAttack.id \in AttackIds
          ELSE S'.bossCurrentAttack
                 = RUST_WARDEN_ATTACKS[RandomIndex(combat'.rng,
                                                   Len(RUST_WARDEN_ATTACKS)) + 1]]_vars

\* practice mode with bash_center and flail_sweep switched off: an attack
\* picked from the three left is in flight
C28_Witness ==
    /\ S.mode = PRACTICE
    /\ S.enabledAttacks = AttackIds \ {"bash_center", "flail_sweep"}
    /\ InFlight
    /\ S.bossCurrentAttack.id \in S.enabledAttacks

\* what a tick does to the forced-attack queue: with no attack in flight,
\* the boss not vulnerable and the queue not empty, the head is removed and,
\* if the catalog has it, starts at the frame the tick reaches, its hit not
\* processed, the generator untouched; on any other tick the queue is as it
\* was
HeadDrained ==
    IF ~InFlight /\ ~S.bossVulnerable /\ combat.forcedAttackQueue # << >>
    THEN /\ combat'.forcedAttackQueue = Tail(combat.forcedAttackQueue)
         /\ Head(combat.forcedAttackQueue) \in AttackIds =>
                /\ S'.bossCurrentAttack = FindAttack(Head(combat.forcedAttackQueue))
                /\ S'.bossAttackStartFrame = S'.currentFrame
                /\ ~S'.bossAttackHitProcessed
                /\ combat'.rng = combat.rng
    ELSE combat'.forcedAttackQueue = combat.forcedAttackQueue

\* C29, as claimed: in practice mode every tick treats the queue as
\* HeadDrained says, forceAttack appends, and the generator is drawn from
\* only on a tick that found the queue empty: the forced attacks are
\* drained before any random roll.
C29_ForcedBeforeRandom ==
    [][S.mode = PRACTICE =>
          /\ FrameStep => HeadDrained
          /\ ~FrameStep =>
                 \/ combat'.forcedAttackQueue = combat.forcedAttackQueue
                 \/ \E id \in QueueIds :
                        combat'.forcedAttackQueue
                          = Append(combat.forcedAttackQueue, id)
          /\ combat'.rng # combat.rng => combat.forcedAttackQueue = << >>]_vars

\* C29, amended: in practice mode every tick treats the queue as
\* HeadDrained says and forceAttack appends; the generator is drawn from
\* only on a tick that found the queue empty or removed from its head an id
\* the catalog does not have: such an id is dropped and the random roll is
\* made on the same tick, whatever is queued behind it.
C29_ForcedFirst ==
    [][S.mode = PRACTICE =>
          /\ FrameStep => HeadDrained
          /\ ~FrameStep =>
                 \/ combat'.forcedAttackQueue = combat.forcedAttackQueue
                 \/ \E id \in QueueIds :
                        combat'.forcedAttackQueue
                          = Append(combat.forcedAttackQueue, id)
          /\ combat'.rng # combat.rng =>
                 /\ FrameStep /\ ~InFlight /\ ~S.bossVulnerable
                 /\ \/ combat.forcedAttackQueue = << >>
                    \/ Head(combat.forcedAttackQueue) \notin AttackIds]_vars

\* two unknown ids were queued ahead of flail_sweep: the second tick dropped
\* the second of them and rolled, and the bash_center it rolled is in flight
\* with flail_sweep still queued
C29_Witness ==
    /\ S.mode = PRACTICE
    /\ InFlight /\ IsBashCenter
    /\ S.bossAttackStartFrame = 2
    /\ combat.forcedAttackQueue = <<"flail_sweep">>

\* the step triggers vulnerability
Interrupted == ~S.bossVulnerable /\ S'.bossVulnerable

\* C30: an attack started at frame s and not interrupted by vulnerability
\* is in flight at every frame of [s, s + T) and is cleared by the tick
\* that reaches frame s + T, T being its windup, active and recovery frames
\* together: no attack in flight is outside that range, a tick short of
\* s + T and a command leave it in flight unless they trigger
\* vulnerability, and the tick to s + T clears it, however its impact was
\* resolved.
C30_FullLifetime ==
    /\ [](InFlight =>
              /\ S.bossAttackStartFrame <= S.currentFrame
              /\ S.currentFrame
                   < S.bossAttackStartFrame + TotalFrames(S.bossCurrentAttack))
    /\ [][InFlight =>
              IF FrameStep /\ S'.currentFrame
                                = S.bossAttackStartFrame
                                    + TotalFrames(S.bossCurrentAttack)
              THEN ~InFlight'
              ELSE InFlight' \/ Interrupted]_vars

\* a practice-mode attack that hit the player is on the last frame of its
\* recovery, still in flight
C30_Witness ==
    /\ S.mode = PRACTICE
    /\ InFlight
    /\ S.deathCount = 1
    /\ FramesSinceStart = TotalFrames(S.bossCurrentAttack) - 1

\* C31: the impact is resolved only at offset windupFrames +
\* IMPACT_DELAY_FRAMES.  A step that raises blocksPerformed or deathCount is
\* a tick that brings the attack in flight to that offset, and its outcome
\* is decided by the shield zone held at that tick alone: a block if it is
\* the zone of a blockable attack, a hit otherwise.
C31_ImpactOnlyAtOffset ==
    [][(S'.blocksPerformed # S.blocksPerformed \/ S'.deathCount # S.deathCount) =>
          /\ FrameStep
          /\ InFlight
          /\ S'.currentFrame - S.bossAttackStartFrame
               = S.bossCurrentAttack.windupFrames + IMPACT_DELAY_FRAMES
          /\ S'.playerShieldZone = S.playerShieldZone
          /\ IF S.playerShieldZone = S.bossCurrentAttack.zone
                /\ S.bossCurrentAttack.isBlocking
             THEN /\ S'.blocksPerformed = S.blocksPerformed + 1
                  /\ S'.deathCount = S.deathCount
             ELSE /\ S'.blocksPerformed = S.blocksPerformed
                  /\ S'.deathCount = S.deathCount + 1]_vars

\* bash_center was blocked at its impact, and the shield was moved away
\* after it: the block stands
C31_Witness ==
    /\ InFlight /\ IsBashCenter
    /\ FramesSinceStart > ImpactOffset(S.bossCurrentAttack)
    /\ S.playerShieldZone = ZONE_LEFT
    /\ S.blocksPerformed = 1
    /\ S.deathCount = 0

\* the stagger as the collision step of this tick leaves it: with the gain
\* of the block, if the tick blocks
StaggerAfterCollision ==
    IF S'.blocksPerformed = S.blocksPerformed + 1
    THEN S.bossStagger + BLOCK_STAGGER * StaggerUnit
    ELSE S.bossStagger

\* the boss is vulnerable when the collision step of this tick ends: it was
\* before the tick, or the block of this tick filled the meter
VulnerableAfterCollision ==
    \/ S.bossVulnerable
    \/ StaggerAfterCollision >= STAGGER_MAX * StaggerUnit

\* C32: a tick whose collision step ends with the boss not vulnerable takes
\* STAGGER_DECAY_PER_SECOND / TICKS_PER_SECOND (one unit) off bossStagger,
\* after the gain of a block of that tick, and floors it at 0; a tick whose
\* collision step ends with the boss vulnerable applies no decay (the
\* stagger is what it was, or the 0 the trigger set).
C32_DecayPerTick ==
    [][FrameStep =>
          IF VulnerableAfterCollision
          THEN S'.bossStagger = IF S.bossVulnerable THEN S.bossStagger ELSE 0
          ELSE S'.bossStagger = Max(0, StaggerAfterCollision - 1)]_vars

\* the tick of a block has just ended: the meter holds the five points of
\* the block less one tick's decay
C32_Witness ==
    /\ InFlight
    /\ FramesSinceStart = ImpactOffset(S.bossCurrentAttack)
    /\ S.blocksPerformed = 1
    /\ S.bossStagger = BLOCK_STAGGER * StaggerUnit - 1

\* the generator's value state / 0x7fffffff is in [0, 1)
InUnitInterval(state) == 0 <= state /\ state < RNG_MODULUS

\* C33: every value the generator produces is in [0, 1): so are the state
\* every drawing step leaves and the next two draws from every reachable
\* state (a roll and the index draw after it); the index of a random start
\* is below the size of the pool, and bossCurrentAttack is never the
\* undefined element past the end of the pool.
C33_UnitInterval ==
    /\ [](/\ InUnitInterval(RngNext(combat.rng))
          /\ InUnitInterval(RngNext(RngNext(combat.rng)))
          /\ RandomIndex(RngNext(RngNext(combat.rng)), Len(RUST_WARDEN_ATTACKS))
               < Len(RUST_WARDEN_ATTACKS)
          /\ S.bossCurrentAttack # Undefined)
    /\ [][/\ combat'.rng # combat.rng => InUnitInterval(combat'.rng)
          /\ RandomStart => S'.bossCurrentAttack.id \in AttackIds]_vars

\* the run seeded with 230538014 has drawn its first value, which in exact
\* arithmetic would be 0x7fffffff / 0x7fffffff = 1
C33_Witness ==
    /\ combat.runSeed = 230538014
    /\ S.currentFrame >= 1
    /\ combat.rng # combat.runSeed
    /\ InUnitInterval(combat.rng)

\* C34: in every reachable state bossHP + damageDealt = bossMaxHP; no step
\* changes bossMaxHP and no step raises bossHP.
C34_HitPointsAccount ==
    /\ [](S.bossHP + S.damageDealt = S.bossMaxHP)
    /\ [][/\ S'.bossMaxHP = S.bossMaxHP
          /\ S'.bossHP <= S.bossHP]_vars

\* a one-point boss has been struck twice in its window: a point below
\* zero, two points dealt
C34_Witness ==
    /\ S.bossMaxHP = 1
    /\ S.bossHP = -1
    /\ S.damageDealt = 2

\* the step is an impact that is neither parried nor blocked
UnblockedImpact ==
    /\ ImpactTick
    /\ \/ ~S.bossCurrentAttack.isBlocking
       \/ S.playerShieldZone # S.bossCurrentAttack.zone

\* C35: in standard mode deathCount is 0 or 1 and playerAlive is true
\* exactly when it is 0; in practice mode deathCount gains exactly 1 on
\* every unblocked, unparried impact, whatever it has reached, and changes
\* on no other step.
C35_DeathCount ==
    /\ [](S.mode = STANDARD =>
              /\ S.deathCount \in {0, 1}
              /\ S.playerAlive <=> S.deathCount = 0)
    /\ [][S.mode = PRACTICE =>
              IF UnblockedImpact
              THEN S'.deathCount = S.deathCount + 1
              ELSE S'.deathCount = S.deathCount]_vars

\* a practice-mode player has been hit by three attacks in a row
C35_Witness ==
    /\ S.mode = PRACTICE
    /\ S.playerAlive
    /\ S.deathCount = 3

\* C36: isRunOver() is stable.  No step takes it from true to false:
\* no step brings a dead player back, and no step brings the boss's hit
\* points from zero or below to above zero.
C36_RunOverStable ==
    [][/\ isRunOver(combat) => isRunOver(combat')
       /\ ~S.playerAlive => ~S'.playerAlive
       /\ isBossDefeated(combat) => isBossDefeated(combat')]_vars

\* a standard-mode player is dead with the boss standing, and a call made
\* after the death has returned false: the run is over
C36_Witness ==
    /\ S.mode = STANDARD
    /\ ~S.playerAlive
    /\ S.bossHP > 0
    /\ combat.ret = "false"
    /\ isRunOver(combat)

\* C37: attemptParry returns true only at an offset from windupFrames - 45
\* to windupFrames + IMPACT_DELAY_FRAMES - 1 of the attack in flight.  In no
\* reachable state at an offset of windupFrames + IMPACT_DELAY_FRAMES or
\* more does a call, whatever its zone and accuracy, return true: the hit is
\* processed by then, or the player is dead.
C37_NoParryFromImpact ==
    /\ \A z \in Zones, a \in Accuracies :
           attemptParry(combat, z, a).ret = "true" =>
               /\ InFlight
               /\ S.bossCurrentAttack.windupFrames - earlyWindow
                    <= FramesSinceStart
               /\ FramesSinceStart
                    < S.bossCurrentAttack.windupFrames + IMPACT_DELAY_FRAMES
    /\ (InFlight /\ FramesSinceStart >= ImpactOffset(S.bossCurrentAttack)) =>
           S.bossAttackHitProcessed \/ ~S.playerAlive

\* a parry made on the last frame before the impact has returned true
C37_Witness ==
    /\ combat.ret = "true"
    /\ InFlight
    /\ FramesSinceStart = ImpactOffset(S.bossCurrentAttack) - 1
    /\ S.perfectParries = 1

\* the strikes that fit in one window: the first deals its damage
\* STRIKE_DAMAGE_OFFSET frames in, the next ones STRIKE_END_OFFSET apart
StrikesPerWindow ==
    (VULNERABILITY_DURATION_FRAMES - STRIKE_DAMAGE_OFFSET) \div STRIKE_END_OFFSET + 1

\* C38: one vulnerability window costs the boss at most 9 hit points.  In a
\* run with one window the damage dealt is at most 9, so a boss of 10 hit
\* points is never defeated in it; while the boss is open, the k-th point
\* of damage is dealt no sooner than STRIKE_DAMAGE_OFFSET +
\* (k - 1) * STRIKE_END_OFFSET frames into the window; and damage is dealt
\* to a vulnerable boss only, SAFE_ATTACK_DAMAGE at a time.
C38_NineStrikesAtMost ==
    /\ [](/\ StrikesPerWindow = 9
          /\ S.damageDealt <= StrikesPerWindow
          /\ S.bossMaxHP = 10 => ~isBossDefeated(combat)
          /\ S.bossVulnerable =>
                 STRIKE_END_OFFSET * S.damageDealt
                   <= S.currentFrame - S.bossVulnerableFrame
                        + STRIKE_END_OFFSET - STRIKE_DAMAGE_OFFSET)
    /\ [][S'.damageDealt # S.damageDealt =>
              /\ S.bossVulnerable
              /\ S'.damageDealt = S.damageDealt + SAFE_ATTACK_DAMAGE
              /\ S'.currentFrame = S.playerAttackFrame + STRIKE_DAMAGE_OFFSET]_vars

\* the window has closed on a boss struck nine times: one hit point left
C38_Witness ==
    /\ ~S.bossVulnerable
    /\ S.damageDealt = 9
    /\ S.bossHP = 1
    /\ S.bossMaxHP = 10

\* C39: in practice mode a forced attack bypasses the enabled set, and
\* switching an attack off does not cancel it.  An idle tick that finds a
\* catalog id at the head of the queue starts that attack whether or not
\* the id is in enabledAttacks; a setPracticeAttack call, with an attack in
\* flight or not, changes enabledAttacks and nothing else of the state.
C39_ForcedBypassesEnabled ==
    /\ [](\A id \in BypassIds, en \in BOOLEAN :
              setPracticeAttack(combat, id, en).state
                = [S EXCEPT !.enabledAttacks =
                       setPracticeAttack(combat, id, en).state.enabledAttacks])
    /\ [][(/\ S.mode = PRACTICE /\ FrameStep
           /\ ~InFlight /\ ~S.bossVulnerable
           /\ combat.forcedAttackQueue # << >>
           /\ Head(combat.forcedAttackQueue) \in AttackIds) =>
              S'.bossCurrentAttack = FindAttack(Head(combat.forcedAttackQueue))]_vars

\* flail_sweep was switched off and then forced: it is in flight, started
\* by the first tick, and enabledAttacks does not have it
C39_Witness ==
    /\ S.mode = PRACTICE
    /\ InFlight
    /\ S.bossCurrentAttack.id = "flail_sweep"
    /\ S.bossAttackStartFrame = 1
    /\ S.currentFrame = 1
    /\ "flail_sweep" \notin S.enabledAttacks

\* bossStagger below STAGGER_MAX, and 0 while the boss is vulnerable
StaggerBelowMax(state) ==
    /\ state.bossStagger < STAGGER_MAX * StaggerUnit
    /\ state.bossVulnerable => state.bossStagger = 0

\* C40: in every reachable state, and after a tick or a parry attempt with
\* any zone and accuracy made in it, bossStagger is strictly below
\* STAGGER_MAX and is exactly 0 while bossVulnerable is true.  No step taken
\* while the boss is vulnerable changes blocksPerformed, perfectParries or
\* bossStagger, and no attack is in flight then.
C40_StaggerBelowMax ==
    /\ [](/\ StaggerBelowMax(S)
          /\ StaggerBelowMax(tick(combat).state)
          /\ \A z \in Zones, a \in Accuracies :
                 StaggerBelowMax(attemptParry(combat, z, a).state)
          /\ S.bossVulnerable => ~InFlight)
    /\ [][S.bossVulnerable =>
              /\ S'.blocksPerformed = S.blocksPerformed
              /\ S'.perfectParries = S.perfectParries
              /\ S'.bossStagger = 0]_vars

\* deep in a window opened after blocks and parries: stagger is 0, and the
\* decay has had sixty ticks in which it was not applied
C40_Witness ==
    /\ S.bossVulnerable
    /\ S.currentFrame > S.bossVulnerableFrame + 60
    /\ S.blocksPerformed > 0
    /\ S.perfectParries > 0
    /\ S.bossStagger = 0

===========================================================================
